---- MODULE Spec2Model ----
(***************************************************************************)
(* Central identity resolution, risk scoring and policy gate of the       *)
(* Secure-step backend, as a state machine.                                *)
(*                                                                         *)
(* The store is the `centralidentities` collection in insertion order.    *)
(* Every request handler is a process; each `await` of the source is a    *)
(* step boundary, so two handlers interleave exactly where Node can       *)
(* switch between them.  A Mongoose document is a local copy of the       *)
(* stored record plus the changes made to it since it was read; save()    *)
(* sends those changes ($set of the modified paths, $push of the pushed   *)
(* array elements) and leaves every other stored path alone.              *)
(***************************************************************************)
EXTENDS Integers, Sequences, FiniteSets, TLC

\* ------------------------------------------------------------ bounds
NumProcs == 2      \* request handlers that may be in flight together
NumVals == 1       \* distinct values of each fingerprint field
NumAgents == 2     \* agent ids a caller may pass
NumMaids == 2      \* distinct identifiers generateMAID can mint
MaxOps == 3        \* requests started in one behaviour

Procs == 1..NumProcs
Vals == 1..NumVals
Agents == 1..NumAgents
MAIDs == 1..NumMaids

\* absent / empty string / null / undefined input
None == 0

\* A fingerprint string v with whitespace around it, and the schema's `trim: true`
\* setter, which strips it
Pad(v) == 0 - v

trim(v) == IF v < 0 THEN 0 - v ELSE v

VARIABLES store, pc, req, doc, res, answered, ops, societies

vars == <<store, pc, req, doc, res, answered, ops, societies>>

\* ------------------------------------------------------------ values
validStatuses == {"pending", "verified", "rejected", "flagged", "suspended", "under_review"}

trustLevels == {"unknown", "low", "medium", "high", "verified"}

\* previousValue / newValue of a history entry (schema type Mixed)
Undef == [t |-> "undefined", str |-> "", num |-> 0, ev |-> <<0, 0, 0>>]
StrVal(s) == [t |-> "string", str |-> s, num |-> 0, ev |-> <<0, 0, 0>>]
NumVal(n) == [t |-> "number", str |-> "", num |-> n, ev |-> <<0, 0, 0>>]
AgentVal(a) == [t |-> "agent", str |-> "", num |-> a, ev |-> <<0, 0, 0>>]
EvVal(d, f, v) == [t |-> "evidence", str |-> "", num |-> 0, ev |-> <<d, f, v>>]

HistoryEntry(action, previousValue, newValue) ==
  [action |-> action, previousValue |-> previousValue, newValue |-> newValue]

\* ------------------------------------------------------------ riskScoring.service
\* Weights with those of the first two signals exchanged
RISK_WEIGHTS_swapped ==
  [verificationConfidence |-> 25, identityReuse |-> 40, deviceReuse |-> 20, incidents |-> 15]

RISK_WEIGHTS ==
  [verificationConfidence |-> 40, identityReuse |-> 25, deviceReuse |-> 20, incidents |-> 15]

THRESHOLDS ==
  [identityReuse |-> [low |-> 2, medium |-> 5, high |-> 10],
   deviceReuse |-> [low |-> 3, medium |-> 7, high |-> 15],
   incidents |-> [low |-> 0, medium |-> 2, high |-> 5]]

\* Ranges that leave score 31 out
TRUST_LEVELS_gap ==
  [VERIFIED |-> [min |-> 0, max |-> 30, label |-> "verified"],
   HIGH |-> [min |-> 32, max |-> 50, label |-> "high"],
   MEDIUM |-> [min |-> 51, max |-> 70, label |-> "medium"],
   LOW |-> [min |-> 71, max |-> 100, label |-> "low"],
   UNKNOWN |-> [min |-> -1, max |-> -1, label |-> "unknown"]]

TRUST_LEVELS ==
  [VERIFIED |-> [min |-> 0, max |-> 30, label |-> "verified"],
   HIGH |-> [min |-> 31, max |-> 50, label |-> "high"],
   MEDIUM |-> [min |-> 51, max |-> 70, label |-> "medium"],
   LOW |-> [min |-> 71, max |-> 100, label |-> "low"],
   UNKNOWN |-> [min |-> -1, max |-> -1, label |-> "unknown"]]

\* A confidence is the rational num/den; den = 0 stands for null / undefined.
Conf(n, d) == [num |-> n, den |-> d]

NoConf == Conf(0, 0)

\* Math.round(a / b) for b > 0: the nearest integer, halves upwards
Round(a, b) == (2 * a + b) \div (2 * b)

Min(a, b) == IF a < b THEN a ELSE b

Max(a, b) == IF a > b THEN a ELSE b

calculateVerificationRisk(verificationConfidence) ==
  IF verificationConfidence.den = 0
  THEN 50
  ELSE LET n == verificationConfidence.num
           \* a value above 1 is taken as a percentage
           d == IF n > verificationConfidence.den
                THEN verificationConfidence.den * 100
                ELSE verificationConfidence.den
       IN Round((d - n) * 100, d)

calculateIdentityReuseRisk(identityReuseCount) ==
  IF identityReuseCount <= 0 THEN 0
  ELSE IF identityReuseCount <= THRESHOLDS.identityReuse.low THEN 10
  ELSE IF identityReuseCount <= THRESHOLDS.identityReuse.medium THEN 40
  ELSE IF identityReuseCount <= THRESHOLDS.identityReuse.high THEN 70
  ELSE 95

calculateDeviceReuseRisk(deviceReuseCount) ==
  IF deviceReuseCount <= 0 THEN 0
  ELSE IF deviceReuseCount <= THRESHOLDS.deviceReuse.low THEN 5
  ELSE IF deviceReuseCount <= THRESHOLDS.deviceReuse.medium THEN 35
  ELSE IF deviceReuseCount <= THRESHOLDS.deviceReuse.high THEN 65
  ELSE 90

\* An incident sub-score that falls again between the medium and the high threshold
calculateIncidentRisk_dip(incidentCount) ==
  IF incidentCount <= 0 THEN 0
  ELSE IF incidentCount <= THRESHOLDS.incidents.medium THEN incidentCount * 20
  ELSE IF incidentCount <= THRESHOLDS.incidents.high THEN 40 - ((incidentCount - 2) * 5)
  ELSE 95

calculateIncidentRisk(incidentCount) ==
  IF incidentCount <= 0 THEN 0
  ELSE IF incidentCount <= THRESHOLDS.incidents.medium THEN incidentCount * 20
  ELSE IF incidentCount <= THRESHOLDS.incidents.high THEN 40 + ((incidentCount - 2) * 15)
  ELSE 95

\* A mapping with the labels of the two middle ranges exchanged
determineTrustLevel_swapped(riskScore) ==
  IF riskScore >= TRUST_LEVELS.LOW.min /\ riskScore <= TRUST_LEVELS.LOW.max
  THEN TRUST_LEVELS.LOW.label
  ELSE IF riskScore >= TRUST_LEVELS.MEDIUM.min /\ riskScore <= TRUST_LEVELS.MEDIUM.max
  THEN TRUST_LEVELS.HIGH.label
  ELSE IF riskScore >= TRUST_LEVELS.HIGH.min /\ riskScore <= TRUST_LEVELS.HIGH.max
  THEN TRUST_LEVELS.MEDIUM.label
  ELSE IF riskScore >= TRUST_LEVELS.VERIFIED.min /\ riskScore <= TRUST_LEVELS.VERIFIED.max
  THEN TRUST_LEVELS.VERIFIED.label
  ELSE TRUST_LEVELS.UNKNOWN.label

determineTrustLevel(riskScore) ==
  IF riskScore >= TRUST_LEVELS.LOW.min /\ riskScore <= TRUST_LEVELS.LOW.max
  THEN TRUST_LEVELS.LOW.label
  ELSE IF riskScore >= TRUST_LEVELS.MEDIUM.min /\ riskScore <= TRUST_LEVELS.MEDIUM.max
  THEN TRUST_LEVELS.MEDIUM.label
  ELSE IF riskScore >= TRUST_LEVELS.HIGH.min /\ riskScore <= TRUST_LEVELS.HIGH.max
  THEN TRUST_LEVELS.HIGH.label
  ELSE IF riskScore >= TRUST_LEVELS.VERIFIED.min /\ riskScore <= TRUST_LEVELS.VERIFIED.max
  THEN TRUST_LEVELS.VERIFIED.label
  ELSE TRUST_LEVELS.UNKNOWN.label

\* riskParams: the four signals; a missing verificationConfidence defaults to 0.5
RiskParams(c, i, d, n) ==
  [verificationConfidence |-> c, identityReuseCount |-> i,
   deviceReuseCount |-> d, incidentCount |-> n]

NoParams == RiskParams(NoConf, 0, 0, 0)

WeightedSum(verificationRisk, identityRisk, deviceRisk, incidentRisk) ==
  (verificationRisk * RISK_WEIGHTS.verificationConfidence)
  + (identityRisk * RISK_WEIGHTS.identityReuse)
  + (deviceRisk * RISK_WEIGHTS.deviceReuse)
  + (incidentRisk * RISK_WEIGHTS.incidents)

calculateRiskScore(params) ==
  LET verificationRisk == calculateVerificationRisk(params.verificationConfidence)
      identityRisk == calculateIdentityReuseRisk(params.identityReuseCount)
      deviceRisk == calculateDeviceReuseRisk(params.deviceReuseCount)
      incidentRisk == calculateIncidentRisk(params.incidentCount)
      weighted == WeightedSum(verificationRisk, identityRisk, deviceRisk, incidentRisk)
      riskScore == Min(100, Max(0, Round(weighted, 100)))
  IN [riskScore |-> riskScore,
      trustLevel |-> determineTrustLevel(riskScore),
      verificationRisk |-> verificationRisk,
      identityRisk |-> identityRisk,
      deviceRisk |-> deviceRisk,
      incidentRisk |-> incidentRisk]

\* ------------------------------------------------------------ CentralIdentity model
\* An identity that starts with the schema's lowest score instead of the neutral 50
CentralIdentity_zeroScore(maid, documentHash, faceEmbeddingId, deviceFingerprint, agentId) ==
  [maid |-> maid,
   documentHash |-> trim(documentHash),
   faceEmbeddingId |-> trim(faceEmbeddingId),
   deviceFingerprint |-> trim(deviceFingerprint),
   linkedAgentIds |-> IF agentId # None THEN <<agentId>> ELSE <<>>,
   verificationStatus |-> "pending",
   riskScore |-> 0,
   trustLevel |-> "unknown",
   verificationHistory |->
     <<HistoryEntry("created", Undef, EvVal(documentHash, faceEmbeddingId, deviceFingerprint))>>,
   lastVerificationDate |-> 0,
   totalVerifications |-> 0,
   flagCount |-> 0,
   lastRiskAssessment |-> 0]

\* new CentralIdentity({...}) as resolveIdentity builds it; the schema defaults fill
\* the metadata counters.  A date is the number of the request that set it, 0 if unset.
CentralIdentity(maid, documentHash, faceEmbeddingId, deviceFingerprint, agentId) ==
  [maid |-> maid,
   documentHash |-> trim(documentHash),
   faceEmbeddingId |-> trim(faceEmbeddingId),
   deviceFingerprint |-> trim(deviceFingerprint),
   linkedAgentIds |-> IF agentId # None THEN <<agentId>> ELSE <<>>,
   verificationStatus |-> "pending",
   riskScore |-> 50,
   trustLevel |-> "unknown",
   verificationHistory |->
     <<HistoryEntry("created", Undef, EvVal(documentHash, faceEmbeddingId, deviceFingerprint))>>,
   lastVerificationDate |-> 0,
   totalVerifications |-> 0,
   flagCount |-> 0,
   lastRiskAssessment |-> 0]

NoIdentity == CentralIdentity(None, None, None, None, None)

\* An element of a document's local linkedAgentIds array: the stored ObjectId, or,
\* after populate('linkedAgentIds'), the Agent document it refers to.
Ref(a) == [populated |-> FALSE, id |-> a]

Populated(a) == [populated |-> TRUE, id |-> a]

\* toString(): an ObjectId or id string gives its hex text; a populated document
\* gives Mongoose's inspect() text of the whole document, which is no id.
toString(e) == [text |-> IF e.populated THEN "inspect" ELSE "hex", id |-> e.id]

\* A Mongoose document: idx is the stored record it was read from (0: not yet
\* inserted), rec its local field values, linked its local linkedAgentIds array,
\* pushedAgents / pushedHistory the array elements pushed since the last save and
\* modified the scalar paths assigned a different value since then.
Document(idx, rec, linked) ==
  [idx |-> idx, rec |-> rec, linked |-> linked,
   pushedAgents |-> <<>>, pushedHistory |-> <<>>, modified |-> {}]

NoDoc == Document(-1, NoIdentity, <<>>)

\* Query result without populate: the stored ids
Hydrate(idx, rec) ==
  Document(idx, rec, [i \in DOMAIN rec.linkedAgentIds |-> Ref(rec.linkedAgentIds[i])])

\* .populate('linkedAgentIds'): every stored id is replaced by its Agent document
populate(d) == [d EXCEPT !.linked = [i \in DOMAIN d.linked |-> Populated(d.linked[i].id)]]

\* doc.path = value: the path is marked modified only if the value differs
SetPath(d, path, value) ==
  IF d.rec[path] = value
  THEN d
  ELSE [d EXCEPT !.rec = [@ EXCEPT ![path] = value], !.modified = @ \cup {path}]

PushHistory(d, entry) ==
  [d EXCEPT !.rec.verificationHistory = Append(@, entry),
            !.pushedHistory = Append(@, entry)]

PushAgent(d, agentId) ==
  [d EXCEPT !.rec.linkedAgentIds = Append(@, agentId),
            !.linked = Append(@, Ref(agentId)),
            !.pushedAgents = Append(@, agentId)]

isModified(d, path) == d.idx = 0 \/ path \in d.modified

\* pre('save') hook: derived counters
preSave(d, now) ==
  LET v == IF isModified(d, "verificationStatus") /\ d.rec.verificationStatus = "verified"
           THEN SetPath(SetPath(d, "lastVerificationDate", now),
                        "totalVerifications", d.rec.totalVerifications + 1)
           ELSE d
  IN IF isModified(d, "verificationStatus") /\ d.rec.verificationStatus = "flagged"
     THEN SetPath(v, "flagCount", v.rec.flagCount + 1)
     ELSE v

\* Validators without the min / max of riskScore
validates_noRange(d) ==
  /\ d.rec.verificationStatus \in validStatuses
  /\ d.rec.trustLevel \in trustLevels

\* Validators without the enum of verificationStatus
validates_noEnum(d) ==
  /\ d.rec.riskScore >= 0
  /\ d.rec.riskScore <= 100
  /\ d.rec.trustLevel \in trustLevels

\* Schema validators run by save(): riskScore min 0 / max 100, the status enum
validates(d) ==
  /\ d.rec.riskScore >= 0
  /\ d.rec.riskScore <= 100
  /\ d.rec.verificationStatus \in validStatuses
  /\ d.rec.trustLevel \in trustLevels

\* A collection without the unique index
duplicateKey_noIndex(st, d) == FALSE

\* unique index on maid: an insert with a stored maid is rejected (E11000)
duplicateKey(st, d) == d.idx = 0 /\ \E i \in DOMAIN st : st[i].maid = d.rec.maid

\* What save() throws, "" if it succeeds
saveError(st, d, now) ==
  IF ~validates(preSave(d, now)) THEN "ValidationError"
  ELSE IF duplicateKey(st, d) THEN "E11000"
  ELSE ""

\* The collection after a successful save(): an insert appends the record; an
\* update $sets the modified paths and $pushes the pushed elements onto the
\* arrays as they are stored now.
\* An update that writes every scalar path of the document, modified or not
applyDelta_wholeDocument(stored, d) ==
  [f \in DOMAIN stored |->
     IF f = "linkedAgentIds" THEN stored.linkedAgentIds \o d.pushedAgents
     ELSE IF f = "verificationHistory" THEN stored.verificationHistory \o d.pushedHistory
     ELSE d.rec[f]]

\* An update that writes the document's own arrays over the stored ones
applyDelta_overwrite(stored, d) ==
  [f \in DOMAIN stored |->
     IF f = "linkedAgentIds" THEN d.rec.linkedAgentIds
     ELSE IF f = "verificationHistory" THEN d.rec.verificationHistory
     ELSE IF f \in d.modified THEN d.rec[f]
     ELSE stored[f]]

applyDelta(stored, d) ==
  [f \in DOMAIN stored |->
     IF f = "linkedAgentIds" THEN stored.linkedAgentIds \o d.pushedAgents
     ELSE IF f = "verificationHistory" THEN stored.verificationHistory \o d.pushedHistory
     ELSE IF f \in d.modified THEN d.rec[f]
     ELSE stored[f]]

save(st, d, now) ==
  LET h == preSave(d, now)
  IN IF h.idx = 0
     THEN Append(st, h.rec)
     ELSE [st EXCEPT ![h.idx] = applyDelta(st[h.idx], h)]

\* The local document after a successful save(): nothing pending any more
saved(st, d, now) ==
  LET h == preSave(d, now)
  IN [h EXCEPT !.idx = IF h.idx = 0 THEN Len(st) + 1 ELSE h.idx,
               !.pushedAgents = <<>>, !.pushedHistory = <<>>, !.modified = {}]

\* A findOne that never finds anything
findOne_none(st, matching) == 0

\* findOne(cond): the first stored record, in natural order, among those that
\* satisfy cond (matching holds their positions); 0 if there is none
findOne(st, matching) ==
  IF matching # {}
  THEN CHOOSE i \in matching : \A j \in matching : i <= j
  ELSE 0

findByMAID(st, maid) == findOne(st, {i \in DOMAIN st : st[i].maid = maid})

\* ------------------------------------------------------------ requests and responses
\* What a handler answered: outcome is "returned" or "thrown" ("none": nothing yet),
\* http the status code a route sent (0 for a service call), error what was thrown;
\* the other fields are the fields of the returned object / JSON body; identities is
\* the list GET /high-risk answers with.
NoResponse ==
  [outcome |-> "none", http |-> 0, error |-> "", maid |-> None, isNewIdentity |-> FALSE,
   matchedOn |-> <<>>, matchConfidence |-> 0, verificationStatus |-> "",
   riskScore |-> -1, trustLevel |-> "", linkedAgentCount |-> 0, identities |-> <<>>,
   requireCentralVerification |-> FALSE]

\* What Agent.findById(agentId).populate('societyId') gives the policy gate: whether
\* the agent exists, whether it has a society, the society's
\* requireCentralVerification flag and the agent's centralVerificationId
Agent(found, societyId, requireCentralVerification, centralVerificationId) ==
  [found |-> found, societyId |-> societyId,
   requireCentralVerification |-> requireCentralVerification,
   centralVerificationId |-> centralVerificationId]

NoAgent == Agent(FALSE, FALSE, FALSE, None)

\* req.body.enabled of the policy route: its typeof and, for a boolean, its value
Body(type, value) == [type |-> type, value |-> value]

NoBody == Body("undefined", FALSE)

\* What a handler was called with.  route tells whether the call came in through
\* the HTTP route (preVerification.routes) or is the service function itself;
\* identityResult is what resolveIdentity returned to POST /start; agent is the agent
\* the policy gate looked up and lookupError the lookup of the gate that threw.
Request(op, route, documentHash, faceEmbeddingId, deviceFingerprint, agentId, maid, status, riskParams, riskScore) ==
  [op |-> op, route |-> route, documentHash |-> documentHash,
   faceEmbeddingId |-> faceEmbeddingId, deviceFingerprint |-> deviceFingerprint,
   agentId |-> agentId, maid |-> maid, status |-> status, riskParams |-> riskParams,
   riskScore |-> riskScore, identityResult |-> NoResponse,
   agent |-> NoAgent, lookupError |-> "", societyId |-> None, enabled |-> NoBody]

NoRequest == Request("none", FALSE, None, None, None, None, None, "", NoParams, 0)

\* A society as the schema creates it: the policy flag is off
Society == [requireCentralVerification |-> FALSE]

\* The societies collection, by societyId: one society is registered
Societies == [s \in {1} |-> Society]

\* res[p] is the last answer of handler p and answered[p] the request it answers
Init ==
  /\ store = <<>>
  /\ pc = [p \in Procs |-> "idle"]
  /\ req = [p \in Procs |-> NoRequest]
  /\ doc = [p \in Procs |-> NoDoc]
  /\ res = [p \in Procs |-> NoResponse]
  /\ answered = [p \in Procs |-> NoRequest]
  /\ ops = 0
  /\ societies = Societies

\* The handler of p ends: r is the request and a what it answers
Finish(p, r, a) ==
  /\ pc' = [pc EXCEPT ![p] = "idle"]
  /\ req' = [req EXCEPT ![p] = NoRequest]
  /\ doc' = [doc EXCEPT ![p] = NoDoc]
  /\ res' = [res EXCEPT ![p] = a]
  /\ answered' = [answered EXCEPT ![p] = r]

\* The handler of p goes on to its next await with request r and document d
Await(p, label, r, d) ==
  /\ pc' = [pc EXCEPT ![p] = label]
  /\ req' = [req EXCEPT ![p] = r]
  /\ doc' = [doc EXCEPT ![p] = d]
  /\ UNCHANGED <<res, answered>>

\* A request arrives: the first idle handler takes it
Arrive(p) ==
  /\ pc[p] = "idle"
  /\ \A q \in 1..(p - 1) : pc[q] # "idle"
  /\ ops < MaxOps
  /\ ops' = ops + 1

\* ------------------------------------------------------------ identityResolution.service
\* A search that looks the document hash up in the device fingerprint field
searchConditions_wrongField(r, rec) ==
  \/ r.documentHash # None /\ rec.deviceFingerprint = trim(r.documentHash)
  \/ r.deviceFingerprint # None /\ rec.deviceFingerprint = trim(r.deviceFingerprint)
  \/ r.faceEmbeddingId # None /\ rec.faceEmbeddingId = trim(r.faceEmbeddingId)

\* A query that compares the supplied values as they are, untrimmed
searchConditions_untrimmed(r, rec) ==
  \/ r.documentHash # None /\ rec.documentHash = r.documentHash
  \/ r.deviceFingerprint # None /\ rec.deviceFingerprint = r.deviceFingerprint
  \/ r.faceEmbeddingId # None /\ rec.faceEmbeddingId = r.faceEmbeddingId

\* $or of the supplied fingerprints; the query is cast with the schema's setters,
\* so each value is trimmed before it is compared
searchConditions(r, rec) ==
  \/ r.documentHash # None /\ rec.documentHash = trim(r.documentHash)
  \/ r.deviceFingerprint # None /\ rec.deviceFingerprint = trim(r.deviceFingerprint)
  \/ r.faceEmbeddingId # None /\ rec.faceEmbeddingId = trim(r.faceEmbeddingId)

\* existingIdentity.field === field: the stored value against the value as supplied
matchedOn(r, rec) ==
  (IF r.documentHash # None /\ rec.documentHash = r.documentHash
   THEN <<"documentHash">> ELSE <<>>)
  \o (IF r.deviceFingerprint # None /\ rec.deviceFingerprint = r.deviceFingerprint
      THEN <<"deviceFingerprint">> ELSE <<>>)
  \o (IF r.faceEmbeddingId # None /\ rec.faceEmbeddingId = r.faceEmbeddingId
      THEN <<"faceEmbeddingId">> ELSE <<>>)

\* in hundredths: 0.9 -> 90
matchConfidence(r, rec) ==
  Max(Max(IF r.documentHash # None /\ rec.documentHash = r.documentHash THEN 90 ELSE 0,
          IF r.deviceFingerprint # None /\ rec.deviceFingerprint = r.deviceFingerprint
          THEN 70 ELSE 0),
      IF r.faceEmbeddingId # None /\ rec.faceEmbeddingId = r.faceEmbeddingId THEN 85 ELSE 0)

\* A test that takes every agent for linked
alreadyLinked_always(d, agentId) == TRUE

\* linkedAgentIds.some(id => id.toString() === agentId.toString())
alreadyLinked(d, agentId) ==
  \E i \in DOMAIN d.linked : toString(d.linked[i]) = toString(Ref(agentId))

\* The object resolveIdentity returns, with the fields of its identity
resolveResult(r, d, isNew) ==
  [NoResponse EXCEPT
     !.outcome = "returned",
     !.maid = d.rec.maid,
     !.isNewIdentity = isNew,
     !.matchedOn = IF isNew THEN <<>> ELSE matchedOn(r, d.rec),
     !.matchConfidence = IF isNew THEN 0 ELSE matchConfidence(r, d.rec),
     !.verificationStatus = d.rec.verificationStatus,
     !.riskScore = d.rec.riskScore,
     !.trustLevel = d.rec.trustLevel,
     !.linkedAgentCount = Len(d.linked)]

\* POST /start, step 2: the risk parameters taken from the resolve result
startRiskParams(r, result, d) ==
  RiskParams(IF result.matchConfidence = 0 THEN Conf(50, 100)
             ELSE Conf(result.matchConfidence, 100),
             Len(d.linked),
             IF r.deviceFingerprint # None THEN 1 ELSE 0,
             d.rec.flagCount)

\* resolveIdentity returns result with identity d: the service call ends; POST /start
\* goes on to calculateAndUpdateRisk with the parameters of step 2.
resolveReturns(p, r, d, result) ==
  IF r.route
  THEN Await(p, "risk_find",
             [r EXCEPT !.maid = result.maid,
                       !.riskParams = startRiskParams(r, result, d),
                       !.identityResult = result],
             NoDoc)
  ELSE Finish(p, r, result)

\* What the catch block of POST /start answers for a thrown error
startCatch(error) ==
  IF error = "required" THEN 400
  ELSE IF error = "ValidationError" THEN 400
  ELSE IF error = "E11000" THEN 409
  ELSE 500

\* A thrown error; a route turns it into the status code http
thrown(r, error, http) ==
  [NoResponse EXCEPT !.outcome = "thrown", !.error = error,
                     !.http = IF r.route THEN http ELSE 0]

\* A Resolve without any fingerprint that stores an identity all the same
resolveIdentity_invalid_creates(p, route, agentId) ==
  LET r == Request("resolveIdentity", route, None, None, None, agentId, None, "", NoParams, 0)
  IN /\ Arrive(p)
     /\ Finish(p, r, thrown(r, "required", 400))
     /\ store' = Append(store, CentralIdentity(None, None, None, None, agentId))

\* resolveIdentity / POST /start without any fingerprint: the validation rejects it
resolveIdentity_invalid(p, route, agentId) ==
  LET r == Request("resolveIdentity", route, None, None, None, agentId, None, "", NoParams, 0)
  IN /\ Arrive(p)
     /\ Finish(p, r, thrown(r, "required", 400))
     /\ UNCHANGED store

\* A resolveIdentity that, on a hit, records the supplied device fingerprint on an
\* identity that has none
resolveIdentity_findOne_backfills(p, route, documentHash, faceEmbeddingId, deviceFingerprint, agentId) ==
  LET r == Request("resolveIdentity", route, documentHash, faceEmbeddingId,
                   deviceFingerprint, agentId, None, "", NoParams, 0)
      i == findOne(store, {k \in DOMAIN store : searchConditions(r, store[k])})
      existingIdentity == populate(Hydrate(i, store[i]))
      filled == IF existingIdentity.rec.deviceFingerprint = None
                THEN SetPath(existingIdentity, "deviceFingerprint", trim(deviceFingerprint))
                ELSE existingIdentity
  IN /\ documentHash # None \/ faceEmbeddingId # None \/ deviceFingerprint # None
     /\ Arrive(p)
     /\ UNCHANGED store
     /\ IF i = 0
        THEN \E newMAID \in MAIDs :
               Await(p, "resolve_save", r,
                     Hydrate(0, CentralIdentity(newMAID, documentHash, faceEmbeddingId,
                                                deviceFingerprint, agentId)))
        ELSE Await(p, "resolve_save", r, filled)

\* resolveIdentity up to its save(): the findOne, and on a hit the link of the agent
resolveIdentity_findOne(p, route, documentHash, faceEmbeddingId, deviceFingerprint, agentId) ==
  LET r == Request("resolveIdentity", route, documentHash, faceEmbeddingId,
                   deviceFingerprint, agentId, None, "", NoParams, 0)
      i == findOne(store, {k \in DOMAIN store : searchConditions(r, store[k])})
      existingIdentity == populate(Hydrate(i, store[i]))
      linked == PushHistory(PushAgent(existingIdentity, agentId),
                            HistoryEntry("updated", Undef, AgentVal(agentId)))
  IN /\ documentHash # None \/ faceEmbeddingId # None \/ deviceFingerprint # None
     /\ Arrive(p)
     /\ UNCHANGED store
     /\ IF i = 0
        THEN \E newMAID \in MAIDs :
               Await(p, "resolve_save", r,
                     Hydrate(0, CentralIdentity(newMAID, documentHash, faceEmbeddingId,
                                                deviceFingerprint, agentId)))
        ELSE IF agentId # None /\ ~alreadyLinked(existingIdentity, agentId)
        THEN Await(p, "resolve_save", r, linked)
        ELSE resolveReturns(p, r, existingIdentity, resolveResult(r, existingIdentity, FALSE))

\* resolveIdentity's save() of the linked or the new identity, and its return
resolveIdentity_save(p) ==
  LET d == doc[p]
      e == saveError(store, d, ops)
      after == saved(store, d, ops)
  IN /\ pc[p] = "resolve_save"
     /\ UNCHANGED ops
     /\ IF e # ""
        THEN /\ Finish(p, req[p], thrown(req[p], e, startCatch(e)))
             /\ UNCHANGED store
        ELSE /\ store' = save(store, d, ops)
             /\ resolveReturns(p, req[p], after, resolveResult(req[p], after, d.idx = 0))

\* An updateVerificationStatus that records the new status as the previous one
updateVerificationStatus_find_newAsPrevious(p, route, maid, status) ==
  LET r == Request("updateVerificationStatus", route, None, None, None, None, maid,
                   status, NoParams, 0)
      i == findByMAID(store, maid)
      identity == Hydrate(i, store[i])
      previousStatus == identity.rec.verificationStatus
      action == IF status = "verified" THEN "verified"
                ELSE IF status = "flagged" THEN "flagged" ELSE "updated"
  IN /\ Arrive(p)
     /\ UNCHANGED store
     /\ IF route /\ status \notin validStatuses
        THEN Finish(p, r, thrown(r, "Invalid status", 400))
        ELSE IF i = 0
        THEN Finish(p, r, thrown(r, "not found", 404))
        ELSE Await(p, "status_save", r,
                   PushHistory(SetPath(identity, "verificationStatus", status),
                               HistoryEntry(action, StrVal(status), StrVal(status))))

\* updateVerificationStatus up to its save(): findByMAID, the new status and its
\* entry; PUT /update-status/:maid first checks the status against validStatuses
updateVerificationStatus_find(p, route, maid, status) ==
  LET r == Request("updateVerificationStatus", route, None, None, None, None, maid,
                   status, NoParams, 0)
      i == findByMAID(store, maid)
      identity == Hydrate(i, store[i])
      previousStatus == identity.rec.verificationStatus
      action == IF status = "verified" THEN "verified"
                ELSE IF status = "flagged" THEN "flagged" ELSE "updated"
  IN /\ Arrive(p)
     /\ UNCHANGED store
     /\ IF route /\ status \notin validStatuses
        THEN Finish(p, r, thrown(r, "Invalid status", 400))
        ELSE IF i = 0
        THEN Finish(p, r, thrown(r, "not found", 404))
        ELSE Await(p, "status_save", r,
                   PushHistory(SetPath(identity, "verificationStatus", status),
                               HistoryEntry(action, StrVal(previousStatus), StrVal(status))))

\* The identity fields a route answers with
identityResponse(r, d) ==
  [NoResponse EXCEPT
     !.outcome = "returned", !.http = IF r.route THEN 200 ELSE 0, !.maid = d.rec.maid,
     !.verificationStatus = d.rec.verificationStatus, !.riskScore = d.rec.riskScore,
     !.trustLevel = d.rec.trustLevel, !.linkedAgentCount = Len(d.linked)]

\* What the catch block of PUT /update-status and PUT /update-risk answers
updateCatch(error) ==
  IF error = "not found" THEN 404
  ELSE IF error = "ValidationError" THEN 400
  ELSE 500

updateVerificationStatus_save(p) ==
  LET d == doc[p]
      e == saveError(store, d, ops)
  IN /\ pc[p] = "status_save"
     /\ UNCHANGED ops
     /\ IF e # ""
        THEN /\ Finish(p, req[p], thrown(req[p], e, updateCatch(e)))
             /\ UNCHANGED store
        ELSE /\ store' = save(store, d, ops)
             /\ Finish(p, req[p], identityResponse(req[p], saved(store, d, ops)))

\* An updateRiskScore whose entry records the two scores the wrong way round
methodUpdateRiskScore_swapped(d, newScore, now) ==
  LET oldScore == d.rec.riskScore
  IN PushHistory(SetPath(SetPath(d, "riskScore", newScore), "lastRiskAssessment", now),
                 HistoryEntry("risk_assessed", NumVal(newScore), NumVal(oldScore)))

\* CentralIdentity.methods.updateRiskScore up to its save()
methodUpdateRiskScore(d, newScore, now) ==
  LET oldScore == d.rec.riskScore
  IN PushHistory(SetPath(SetPath(d, "riskScore", newScore), "lastRiskAssessment", now),
                 HistoryEntry("risk_assessed", NumVal(oldScore), NumVal(newScore)))

\* What the catch block of the route that called calculateAndUpdateRisk answers
riskCatch(r, error) ==
  IF r.op = "resolveIdentity" THEN startCatch(error) ELSE updateCatch(error)

\* calculateAndUpdateRisk up to the save() inside identity.updateRiskScore
riskFind(p, r) ==
  LET i == findByMAID(store, r.maid)
      identity == Hydrate(i, store[i])
      riskResult == calculateRiskScore(r.riskParams)
  IN /\ UNCHANGED store
     /\ IF i = 0
        THEN Finish(p, r, thrown(r, "not found", riskCatch(r, "not found")))
        ELSE Await(p, "risk_save1", r,
                   methodUpdateRiskScore(identity, riskResult.riskScore, ops'))

\* a direct call of the service function
calculateAndUpdateRisk_call(p, maid, riskParams) ==
  /\ Arrive(p)
  /\ riskFind(p, Request("calculateAndUpdateRisk", FALSE, None, None, None, None, maid,
                         "", riskParams, 0))

\* PUT /update-risk/:maid: the range check, then calculateAndUpdateRisk with the
\* confidence (100 - riskScore) / 100
updateRisk_route(p, maid, riskScore) ==
  LET r == Request("calculateAndUpdateRisk", TRUE, None, None, None, None, maid, "",
                   RiskParams(Conf(100 - riskScore, 100), 0, 0, 0), riskScore)
  IN /\ Arrive(p)
     /\ IF riskScore < 0 \/ riskScore > 100
        THEN /\ Finish(p, r, thrown(r, "must be between", 400))
             /\ UNCHANGED store
        ELSE riskFind(p, r)

\* POST /start, step 3
calculateAndUpdateRisk_find(p) ==
  /\ pc[p] = "risk_find"
  /\ UNCHANGED ops
  /\ riskFind(p, req[p])

\* the save() of identity.updateRiskScore, then identity.trustLevel = ...
calculateAndUpdateRisk_save1(p) ==
  LET d == doc[p]
      e == saveError(store, d, ops)
      riskResult == calculateRiskScore(req[p].riskParams)
  IN /\ pc[p] = "risk_save1"
     /\ UNCHANGED ops
     /\ IF e # ""
        THEN /\ Finish(p, req[p], thrown(req[p], e, riskCatch(req[p], e)))
             /\ UNCHANGED store
        ELSE /\ store' = save(store, d, ops)
             /\ Await(p, "risk_save2", req[p],
                      SetPath(saved(store, d, ops), "trustLevel", riskResult.trustLevel))

\* What the caller of calculateAndUpdateRisk answers: POST /start reports the
\* resolve result with the computed score and level, PUT /update-risk the identity
riskResponse(r, d) ==
  LET riskResult == calculateRiskScore(r.riskParams)
  IN IF r.op = "resolveIdentity"
     THEN [r.identityResult EXCEPT
             !.http = IF r.identityResult.isNewIdentity THEN 201 ELSE 200,
             !.riskScore = riskResult.riskScore,
             !.trustLevel = riskResult.trustLevel]
     ELSE identityResponse(r, d)

\* the second save(), of the trust level, and the return
calculateAndUpdateRisk_save2(p) ==
  LET d == doc[p]
      e == saveError(store, d, ops)
  IN /\ pc[p] = "risk_save2"
     /\ UNCHANGED ops
     /\ IF e # ""
        THEN /\ Finish(p, req[p], thrown(req[p], e, riskCatch(req[p], e)))
             /\ UNCHANGED store
        ELSE /\ store' = save(store, d, ops)
             /\ Finish(p, req[p], riskResponse(req[p], saved(store, d, ops)))

\* identityResolution.updateRiskScore: the trust level it derives from the score
updateRiskScoreTrustLevel(riskScore) ==
  IF riskScore >= 80 THEN "low"
  ELSE IF riskScore >= 60 THEN "medium"
  ELSE IF riskScore >= 40 THEN "high"
  ELSE "verified"

\* identityResolution.updateRiskScore up to the save() inside identity.updateRiskScore
updateRiskScore_find(p, maid, riskScore) ==
  LET r == Request("updateRiskScore", FALSE, None, None, None, None, maid, "",
                   NoParams, riskScore)
      i == findByMAID(store, maid)
      identity == Hydrate(i, store[i])
  IN /\ Arrive(p)
     /\ UNCHANGED store
     /\ IF i = 0
        THEN Finish(p, r, thrown(r, "not found", 0))
        ELSE Await(p, "urs_save1", r, methodUpdateRiskScore(identity, riskScore, ops'))

updateRiskScore_save1(p) ==
  LET d == doc[p]
      e == saveError(store, d, ops)
  IN /\ pc[p] = "urs_save1"
     /\ UNCHANGED ops
     /\ IF e # ""
        THEN /\ Finish(p, req[p], thrown(req[p], e, 0))
             /\ UNCHANGED store
        ELSE /\ store' = save(store, d, ops)
             /\ Await(p, "urs_save2", req[p],
                      SetPath(saved(store, d, ops), "trustLevel",
                              updateRiskScoreTrustLevel(req[p].riskScore)))

updateRiskScore_save2(p) ==
  LET d == doc[p]
      e == saveError(store, d, ops)
  IN /\ pc[p] = "urs_save2"
     /\ UNCHANGED ops
     /\ IF e # ""
        THEN /\ Finish(p, req[p], thrown(req[p], e, 0))
             /\ UNCHANGED store
        ELSE /\ store' = save(store, d, ops)
             /\ Finish(p, req[p], identityResponse(req[p], saved(store, d, ops)))

\* ------------------------------------------------------------ the system
\* Evidence: <<documentHash, faceEmbeddingId, deviceFingerprint>>
Fingerprints == {None} \cup Vals

AllEvidence == (Fingerprints \X Fingerprints \X Fingerprints) \ {<<None, None, None>>}

AgentInputs == {None} \cup Agents

\* riskParams of direct calculateAndUpdateRisk calls: confidences k / ConfDen
ConfDen == 8

\* One step of handler p.  I gives the requests that may arrive: invalid and
\* resolve hold <<route, evidence, agentId>>, status <<route, maid, status>>,
\* call <<maid, riskParams>>, override and score <<maid, riskScore>>.
Step(p, I) ==
  \/ \E x \in I.invalid : resolveIdentity_invalid(p, x[1], x[3])
  \/ \E x \in I.resolve : resolveIdentity_findOne(p, x[1], x[2][1], x[2][2], x[2][3], x[3])
  \/ resolveIdentity_save(p)
  \/ \E x \in I.status : updateVerificationStatus_find(p, x[1], x[2], x[3])
  \/ updateVerificationStatus_save(p)
  \/ \E x \in I.call : calculateAndUpdateRisk_call(p, x[1], x[2])
  \/ \E x \in I.override : updateRisk_route(p, x[1], x[2])
  \/ calculateAndUpdateRisk_find(p)
  \/ calculateAndUpdateRisk_save1(p)
  \/ calculateAndUpdateRisk_save2(p)
  \/ \E x \in I.score : updateRiskScore_find(p, x[1], x[2])
  \/ updateRiskScore_save1(p)
  \/ updateRiskScore_save2(p)

NoEvidence == <<None, None, None>>

\* Handlers in flight together, interleaving at every await.  The handlers of the
\* identity service, the risk service and the gate never write a society.
ConcurrentInputs ==
  [invalid |-> {<<FALSE, NoEvidence, None>>},
   resolve |-> {FALSE, TRUE} \X {<<1, None, None>>} \X {None, 1},
   status |-> {FALSE} \X MAIDs \X {"verified", "flagged"},
   call |-> MAIDs \X {RiskParams(Conf(0, ConfDen), 11, 0, 6)},
   override |-> MAIDs \X {80},
   score |-> MAIDs \X {75}]

Next == \E p \in Procs : UNCHANGED societies /\ Step(p, ConcurrentInputs)

Spec == Init /\ [][Next]_vars

\* One handler at a time: a request arrives only when no other is running
SeqInputs ==
  [invalid |-> {FALSE, TRUE} \X {NoEvidence} \X {None},
   resolve |-> ({FALSE} \X AllEvidence \X AgentInputs)
               \cup ({FALSE} \X {<<Pad(1), None, None>>} \X {None})
               \cup ({TRUE} \X {<<1, None, None>>} \X {None, 1}),
   status |-> {FALSE} \X MAIDs \X {"verified", "flagged"},
   call |-> MAIDs \X {RiskParams(Conf(0, ConfDen), 11, 0, 6)},
   override |-> MAIDs \X {80},
   score |-> MAIDs \X {75}]

SeqNext ==
  \E p \in Procs :
    UNCHANGED societies /\ (\A q \in Procs \ {p} : pc[q] = "idle") /\ Step(p, SeqInputs)

SeqSpec == Init /\ [][SeqNext]_vars

\* ------------------------------------------------------------ properties
\* A step in which handler p answers a request
Finishes(p) ==
  /\ pc'[p] = "idle"
  /\ \/ pc[p] # "idle"
     \/ ops' # ops /\ \A q \in 1..(p - 1) : pc[q] # "idle"

SameFingerprints(a, b) ==
  /\ a.documentHash = b.documentHash
  /\ a.faceEmbeddingId = b.faceEmbeddingId
  /\ a.deviceFingerprint = b.deviceFingerprint

\* a is the answer of a resolveIdentity call r that returned
ResolveReturned(r, a) == r.op = "resolveIdentity" /\ a.outcome = "returned"

SingleFingerprint(r) ==
  Cardinality({f \in {"documentHash", "faceEmbeddingId", "deviceFingerprint"} :
                 r[f] # None}) = 1

\* C1 (as claimed): overlapping Resolve calls with the same evidence never leave
\* two stored identities that carry that same evidence.
C1_OneIdentityPerEvidence ==
  \A i, j \in DOMAIN store : SameFingerprints(store[i], store[j]) => i = j

\* C2: of two consecutive Resolve calls with the same single-fingerprint evidence
\* the second returns the id the first returned, and reports isNewIdentity = false.
C2_DeterministicMatch ==
  [][\A p \in Procs :
       (/\ Finishes(p)
        /\ ResolveReturned(answered[p], res[p])
        /\ ResolveReturned(answered'[p], res'[p])
        /\ SingleFingerprint(answered[p])
        /\ SameFingerprints(answered[p], answered'[p]))
       => (res'[p].maid = res[p].maid /\ res'[p].isNewIdentity = FALSE)]_vars

\* C2 witness: a Resolve with one fingerprint has found the identity that an
\* earlier Resolve created
C2_Witness ==
  \E p \in Procs :
    /\ ResolveReturned(answered[p], res[p])
    /\ SingleFingerprint(answered[p])
    /\ res[p].isNewIdentity = FALSE
    /\ res[p].matchedOn # <<>>
    /\ pc[p] = "idle"

\* The stored identity with the given maid (NoIdentity if there is none)
Stored(st, maid) ==
  IF findByMAID(st, maid) = 0 THEN NoIdentity ELSE st[findByMAID(st, maid)]

\* C3 (as claimed): when a Resolve with an actor is repeated with the same evidence
\* and the same actor, the second call leaves the identity's linkedAgentIds and
\* its history as they were.
C3_IdempotentLinking ==
  [][\A p \in Procs :
       (/\ Finishes(p)
        /\ ResolveReturned(answered[p], res[p])
        /\ ResolveReturned(answered'[p], res'[p])
        /\ ~answered'[p].route
        /\ SameFingerprints(answered[p], answered'[p])
        /\ answered[p].agentId # None
        /\ answered'[p].agentId = answered[p].agentId
        /\ res'[p].maid = res[p].maid)
       => (/\ Stored(store', res[p].maid).linkedAgentIds
               = Stored(store, res[p].maid).linkedAgentIds
           /\ Stored(store', res[p].maid).verificationHistory
               = Stored(store, res[p].maid).verificationHistory)]_vars

\* The last entry of the history of rec
LastEntry(rec) == rec.verificationHistory[Len(rec.verificationHistory)]

\* The entry e is the audit event of the change from the stored identity old to new
EventOf(e, old, new) ==
  \/ /\ e.action \in {"verified", "flagged", "updated"}
     /\ e.newValue = StrVal(new.verificationStatus)
     /\ new.linkedAgentIds = old.linkedAgentIds
     /\ new.riskScore = old.riskScore
  \/ /\ e.action = "updated"
     /\ e.newValue.t = "agent"
     /\ new.linkedAgentIds = Append(old.linkedAgentIds, e.newValue.num)
     /\ new.verificationStatus = old.verificationStatus
     /\ new.riskScore = old.riskScore
  \/ /\ e.action = "risk_assessed"
     /\ e.newValue = NumVal(new.riskScore)
     /\ new.linkedAgentIds = old.linkedAgentIds
     /\ new.verificationStatus = old.verificationStatus

\* In this step identity i is created with its one 'created' event, which holds
\* the fingerprints as they were supplied, or changed
\* with exactly one event that records the new value, or keeps its status, score,
\* linked agents and history
AuditedStep(i) ==
  IF i > Len(store)
  THEN /\ Len(store'[i].verificationHistory) = 1
       /\ store'[i].verificationHistory[1].action = "created"
       /\ store'[i].verificationHistory[1].newValue.t = "evidence"
       /\ trim(store'[i].verificationHistory[1].newValue.ev[1]) = store'[i].documentHash
       /\ trim(store'[i].verificationHistory[1].newValue.ev[2]) = store'[i].faceEmbeddingId
       /\ trim(store'[i].verificationHistory[1].newValue.ev[3]) = store'[i].deviceFingerprint
  ELSE \/ /\ store'[i].verificationHistory = store[i].verificationHistory
          /\ store'[i].verificationStatus = store[i].verificationStatus
          /\ store'[i].riskScore = store[i].riskScore
          /\ store'[i].linkedAgentIds = store[i].linkedAgentIds
       \/ /\ store'[i].verificationHistory
               = Append(store[i].verificationHistory, LastEntry(store'[i]))
          /\ EventOf(LastEntry(store'[i]), store[i], store'[i])

\* In this step the history of identity i grows only if some other field changes
MutatesIfAppends(i) ==
  store'[i].verificationHistory # store[i].verificationHistory
    => \E f \in DOMAIN store[i] \ {"verificationHistory"} : store'[i][f] # store[i][f]

C5_TrustLevelOfScore ==
  (\A p \in Procs : pc[p] = "idle")
    => \A i \in DOMAIN store :
         \/ store[i].trustLevel = determineTrustLevel(store[i].riskScore)
         \/ store[i].riskScore = 50 /\ store[i].trustLevel = "unknown"

\* ------------------------------------------------------------ the score computation
\* One risk operation on a freshly created identity, over the whole range of the
\* four signals: every confidence k / ConfDen in [0, 1], the confidence 0.9, and
\* the counts on either side of every threshold; overrides and direct scores inside and outside 0..100.
ScoreConfidences == {Conf(k, ConfDen) : k \in 0..ConfDen} \cup {Conf(9, 10)}

IdentityReuseCounts == {0, 1, 2, 3, 5, 6, 10, 11}

DeviceReuseCounts == {0, 1, 3, 4, 7, 8, 15, 16}

IncidentCounts == {0, 1, 2, 3, 4, 5, 6}

ScoreParams ==
  {RiskParams(c, i, d, n) : c \in ScoreConfidences, i \in IdentityReuseCounts,
                            d \in DeviceReuseCounts, n \in IncidentCounts}

ScoreInputs == {-1, 0, 1, 30, 31, 50, 51, 70, 71, 99, 100, 101}

ScoreInit ==
  /\ store = <<CentralIdentity(1, 1, None, None, None)>>
  /\ pc = [p \in Procs |-> "idle"]
  /\ req = [p \in Procs |-> NoRequest]
  /\ doc = [p \in Procs |-> NoDoc]
  /\ res = [p \in Procs |-> NoResponse]
  /\ answered = [p \in Procs |-> NoRequest]
  /\ ops = MaxOps - 1
  /\ societies = Societies

ScoreStep(p) ==
  \/ \E x \in ScoreParams : calculateAndUpdateRisk_call(p, store[1].maid, x)
  \/ \E x \in ScoreInputs : updateRisk_route(p, store[1].maid, x)
  \/ calculateAndUpdateRisk_save1(p)
  \/ calculateAndUpdateRisk_save2(p)
  \/ \E x \in ScoreInputs : updateRiskScore_find(p, store[1].maid, x)
  \/ updateRiskScore_save1(p)
  \/ updateRiskScore_save2(p)

ScoreNext == \E p \in Procs : UNCHANGED societies /\ ScoreStep(p)

ScoreSpec == ScoreInit /\ [][ScoreNext]_vars

\* C6: every score calculateRiskScore computes for a confidence in [0, 1] and
\* non-negative counts lies in 0..100, and so does every stored riskScore.
C6_ScoreRange ==
  /\ \A i \in DOMAIN store : store[i].riskScore \in 0..100
  /\ \A p \in Procs :
       pc[p] \in {"risk_save1", "risk_save2"}
         => calculateRiskScore(req[p].riskParams).riskScore \in 0..100

\* C6 witness: the highest score the four signals can give has been computed and
\* stored
C6_Witness ==
  \E i \in DOMAIN store :
    /\ store[i].riskScore = 96
    /\ LastEntry(store[i]) = HistoryEntry("risk_assessed", NumVal(50), NumVal(96))

\* ------------------------------------------------------------ the policy gate
\* checkCentralVerificationIfRequired calls next()
gateNext == [NoResponse EXCEPT !.outcome = "next"]

\* checkCentralVerificationIfRequired answers 403 with an error code
gateDenied(error, currentStatus) ==
  [NoResponse EXCEPT !.outcome = "denied", !.http = 403, !.error = error,
                     !.verificationStatus = currentStatus]

\* A catch block that answers 500 instead of calling next()
gateCatch_failClosed(error) == gateDenied("ERROR", "")

\* The catch block: log and call next()
gateCatch(error) == gateNext

\* A gate that asks for the central identity whatever the policy flag is
policyDecision_ignoresFlag(agent) ==
  IF ~agent.found \/ ~agent.societyId THEN "next"
  ELSE IF agent.centralVerificationId = None THEN "CENTRAL_VERIFICATION_REQUIRED"
  ELSE "findOne"

\* What the gate does with the agent it looked up: call next(), deny, or go on to
\* look the central identity up
policyDecision(agent) ==
  IF ~agent.found \/ ~agent.societyId THEN "next"
  ELSE IF ~agent.requireCentralVerification THEN "next"
  ELSE IF agent.centralVerificationId = None THEN "CENTRAL_VERIFICATION_REQUIRED"
  ELSE "findOne"

\* A gate that lets every identity that exists pass
identityDecision_anyStatus(st, maid) ==
  IF findByMAID(st, maid) = 0
  THEN gateDenied("CENTRAL_VERIFICATION_INVALID", "")
  ELSE gateNext

\* What the gate answers once it has looked the central identity up
identityDecision(st, maid) ==
  LET i == findByMAID(st, maid)
  IN IF i = 0
     THEN gateDenied("CENTRAL_VERIFICATION_INVALID", "")
     ELSE IF st[i].verificationStatus # "verified"
     THEN gateDenied("CENTRAL_VERIFICATION_PENDING", st[i].verificationStatus)
     ELSE gateNext

\* The gate is entered: without an agent id it calls next() at once
checkCentralVerificationIfRequired(p, agentId) ==
  LET r == Request("checkCentralVerificationIfRequired", TRUE, None, None, None, agentId,
                   None, "", NoParams, 0)
  IN /\ Arrive(p)
     /\ UNCHANGED store
     /\ IF agentId = None
        THEN Finish(p, r, gateNext)
        ELSE Await(p, "gate_findById", r, NoDoc)

\* await Agent.findById(agentId).populate('societyId'), which may throw, and the
\* checks on its result
checkCentralVerificationIfRequired_findById(p, agent, throws) ==
  LET r == [req[p] EXCEPT !.agent = agent]
  IN /\ pc[p] = "gate_findById"
     /\ UNCHANGED <<store, ops>>
     /\ IF throws
        THEN Finish(p, [req[p] EXCEPT !.lookupError = "findById"], gateCatch("findById"))
        ELSE IF policyDecision(agent) = "next"
        THEN Finish(p, r, gateNext)
        ELSE IF policyDecision(agent) = "findOne"
        THEN Await(p, "gate_findOne", r, NoDoc)
        ELSE Finish(p, r, gateDenied(policyDecision(agent), ""))

\* await CentralIdentity.findOne({ maid: agent.centralVerificationId }), which may
\* throw, and the checks on its result
checkCentralVerificationIfRequired_findOne(p, throws) ==
  /\ pc[p] = "gate_findOne"
  /\ UNCHANGED <<store, ops>>
  /\ IF throws
     THEN Finish(p, [req[p] EXCEPT !.lookupError = "findOne"], gateCatch("findOne"))
     ELSE Finish(p, req[p], identityDecision(store, req[p].agent.centralVerificationId))

\* The agents a lookup may give
AgentRecords ==
  {Agent(f, s, q, c) : f \in BOOLEAN, s \in BOOLEAN, q \in BOOLEAN, c \in {None} \cup MAIDs}

\* Gated requests next to the operations that create an identity and set its status
GateStep(p) ==
  \/ resolveIdentity_findOne(p, FALSE, 1, None, None, None)
  \/ resolveIdentity_save(p)
  \/ \E m \in MAIDs, s \in validStatuses : updateVerificationStatus_find(p, FALSE, m, s)
  \/ updateVerificationStatus_save(p)
  \/ \E a \in AgentInputs : checkCentralVerificationIfRequired(p, a)
  \/ \E a \in AgentRecords, t \in BOOLEAN : checkCentralVerificationIfRequired_findById(p, a, t)
  \/ \E t \in BOOLEAN : checkCentralVerificationIfRequired_findOne(p, t)

GateNext == \E p \in Procs : UNCHANGED societies /\ GateStep(p)

GateSpec == Init /\ [][GateNext]_vars

\* a is the answer of the gate to request r
Gated(r, a) == r.op = "checkCentralVerificationIfRequired" /\ a.outcome # "none"

\* The agent of r belongs to a society, whose policy flag is flag
PolicyIs(r, flag) ==
  r.agent.found /\ r.agent.societyId /\ r.agent.requireCentralVerification = flag

\* C7: whenever a lookup of the gate has thrown, the gate has called next() and has
\* sent no denial or error, also when the policy requires verification.
C7_FailOpen ==
  \A p \in Procs :
    (Gated(answered[p], res[p]) /\ answered[p].lookupError # "")
      => (res[p].outcome = "next" /\ res[p].http = 0 /\ res[p].error = "")

\* C7 witness: the policy is on, the agent's identity is stored and not verified,
\* the identity lookup threw and the request went through
C7_Witness ==
  \E p \in Procs :
    /\ Gated(answered[p], res[p])
    /\ answered[p].lookupError = "findOne"
    /\ PolicyIs(answered[p], TRUE)
    /\ Stored(store, answered[p].agent.centralVerificationId).verificationStatus = "pending"
    /\ findByMAID(store, answered[p].agent.centralVerificationId) # 0
    /\ res[p].outcome = "next"

\* C8: when the policy is on and no lookup throws, the gate calls next() only for
\* an agent whose central identity is stored with status 'verified'; without an
\* identity reference it denies with CENTRAL_VERIFICATION_REQUIRED, without the
\* record with CENTRAL_VERIFICATION_INVALID, and otherwise with
\* CENTRAL_VERIFICATION_PENDING and the current status.
C8_DeniesUnlessVerified ==
  [][\A p \in Procs :
       (/\ Finishes(p)
        /\ Gated(answered'[p], res'[p])
        /\ answered'[p].lookupError = ""
        /\ PolicyIs(answered'[p], TRUE))
       => LET maid == answered'[p].agent.centralVerificationId
              identity == Stored(store, maid)
          IN IF maid = None
             THEN res'[p] = gateDenied("CENTRAL_VERIFICATION_REQUIRED", "")
             ELSE IF findByMAID(store, maid) = 0
             THEN res'[p] = gateDenied("CENTRAL_VERIFICATION_INVALID", "")
             ELSE IF identity.verificationStatus # "verified"
             THEN /\ res'[p].outcome = "denied"
                  /\ res'[p].http = 403
                  /\ res'[p].error = "CENTRAL_VERIFICATION_PENDING"
                  /\ res'[p].verificationStatus = identity.verificationStatus
             ELSE res'[p].outcome = "next" /\ res'[p].http = 0]_vars

\* C8 witness: under a policy that is on, an agent whose identity is under review
\* has been denied with that status
C8_Witness ==
  \E p \in Procs :
    /\ Gated(answered[p], res[p])
    /\ PolicyIs(answered[p], TRUE)
    /\ res[p] = gateDenied("CENTRAL_VERIFICATION_PENDING", "under_review")
    /\ Stored(store, answered[p].agent.centralVerificationId).verificationStatus
         = "under_review"

\* C9: when the policy flag of the agent's society is off the gate calls next(),
\* whatever the agent's central identity is, and it never gets to the lookup of the
\* central identity.
C9_PolicyOffAllows ==
  \A p \in Procs :
    /\ (Gated(answered[p], res[p]) /\ PolicyIs(answered[p], FALSE))
         => (res[p].outcome = "next" /\ res[p].http = 0 /\ res[p].error = "")
    /\ pc[p] = "gate_findOne" => PolicyIs(req[p], TRUE)

\* C9 witness: the policy is off, the agent's identity is stored and flagged, and
\* the request went through
C9_Witness ==
  \E p \in Procs :
    /\ Gated(answered[p], res[p])
    /\ PolicyIs(answered[p], FALSE)
    /\ answered[p].lookupError = ""
    /\ Stored(store, answered[p].agent.centralVerificationId).verificationStatus = "flagged"
    /\ findByMAID(store, answered[p].agent.centralVerificationId) # 0
    /\ res[p].outcome = "next"

\* Some fingerprint supplied with r is, once trimmed, a fingerprint of rec
Matches(r, rec) ==
  \E f \in {"documentHash", "faceEmbeddingId", "deviceFingerprint"} :
    r[f] # None /\ rec[f] = trim(r[f])

\* The step appends one identity to the store, which is as Resolve creates it for r
\* and is what a reports, and leaves the stored identities alone
CreatesFor(r, a) ==
  /\ Len(store') = Len(store) + 1
  /\ \A i \in DOMAIN store : store'[i] = store[i]
  /\ LET new == store'[Len(store')]
     IN /\ new.maid = a.maid
        /\ new.documentHash = trim(r.documentHash)
        /\ new.faceEmbeddingId = trim(r.faceEmbeddingId)
        /\ new.deviceFingerprint = trim(r.deviceFingerprint)
        /\ new.verificationStatus = "pending"
        /\ new.linkedAgentIds = (IF r.agentId # None THEN <<r.agentId>> ELSE <<>>)
        /\ Len(new.verificationHistory) = 1
        /\ new.verificationHistory[1].action = "created"

FirstMatch(st, r) == findOne(st, {i \in DOMAIN st : Matches(r, st[i])})

\* The elements of the sequence q
Range(q) == {q[k] : k \in DOMAIN q}

\* C11: with one operation at a time, a resolveIdentity call that returns when some
\* stored identity has one of its fingerprints reports that identity's maid with
\* isNewIdentity = false and stores no new identity; if an agent was given that is
\* not among the identity's linked agents, the call appends that agent and exactly
\* one 'updated' event, and without an agent it leaves the store as it was.
C11_HitReturnsExisting ==
  [][\A p \in Procs :
       (/\ Finishes(p)
        /\ ResolveReturned(answered'[p], res'[p])
        /\ ~answered'[p].route
        /\ FirstMatch(store, answered'[p]) # 0)
       => LET r == answered'[p]
              i == FirstMatch(store, r)
          IN /\ res'[p].isNewIdentity = FALSE
             /\ res'[p].maid = store[i].maid
             /\ Len(store') = Len(store)
             /\ \A j \in DOMAIN store \ {i} : store'[j] = store[j]
             /\ (r.agentId # None /\ r.agentId \notin Range(store[i].linkedAgentIds))
                  => (/\ store'[i].linkedAgentIds = Append(store[i].linkedAgentIds, r.agentId)
                      /\ store'[i].verificationHistory
                           = Append(store[i].verificationHistory,
                                    HistoryEntry("updated", Undef, AgentVal(r.agentId))))
             /\ r.agentId = None => store' = store]_vars

\* C11 witness: a second agent has resolved to the identity of the first, which is
\* now linked to both
C11_Witness ==
  \E p \in Procs :
    /\ ResolveReturned(answered[p], res[p])
    /\ ~answered[p].route
    /\ res[p].isNewIdentity = FALSE
    /\ answered[p].agentId = 2
    /\ Stored(store, res[p].maid).linkedAgentIds = <<1, 2>>
    /\ LastEntry(Stored(store, res[p].maid)) = HistoryEntry("updated", Undef, AgentVal(2))

\* The fingerprint f supplied with r is, once trimmed, the fingerprint f of rec
FieldMatch(r, rec, f) == r[f] # None /\ rec[f] = trim(r[f])

\* C12 (as claimed): a Resolve that hits returns an identity matched on the document
\* hash if any stored identity matches on the document hash, and otherwise one
\* matched on the face embedding if any stored identity matches on that.
C12_MatchPriority ==
  [][\A p \in Procs :
       (/\ Finishes(p)
        /\ ResolveReturned(answered'[p], res'[p])
        /\ res'[p].isNewIdentity = FALSE)
       => LET r == answered'[p]
              got == Stored(store, res'[p].maid)
              some(f) == \E i \in DOMAIN store : FieldMatch(r, store[i], f)
          IN /\ some("documentHash") => FieldMatch(r, got, "documentHash")
             /\ (~some("documentHash") /\ some("faceEmbeddingId"))
                  => FieldMatch(r, got, "faceEmbeddingId")]_vars

\* The fixed weight of a fingerprint field, in hundredths
Weight(f) ==
  IF f = "documentHash" THEN 90 ELSE IF f = "faceEmbeddingId" THEN 85 ELSE 70

\* The largest number of the non-empty set S
Maximum(S) == CHOOSE x \in S : \A y \in S : y <= x

\* C13 (as claimed): on a hit, matchedOn holds exactly the supplied fingerprint
\* fields whose value equals the value of the returned identity, the confidence is
\* the largest weight among them, matchedOn is not empty and the confidence is at
\* least 0.70.
C13_MatchedOnAndConfidence ==
  [][\A p \in Procs :
       (/\ Finishes(p)
        /\ ResolveReturned(answered'[p], res'[p])
        /\ res'[p].isNewIdentity = FALSE)
       => LET r == answered'[p]
              got == Stored(store', res'[p].maid)
              equal == {f \in {"documentHash", "faceEmbeddingId", "deviceFingerprint"} :
                          r[f] # None /\ got[f] = r[f]}
          IN /\ Range(res'[p].matchedOn) = equal
             /\ Len(res'[p].matchedOn) = Cardinality(equal)
             /\ equal # {}
             /\ res'[p].matchConfidence = Maximum({Weight(f) : f \in equal})
             /\ res'[p].matchConfidence >= 70]_vars

\* C14: a Resolve without any fingerprint, through the service or through
\* POST /start, ends with the validation error (status 400 from the route) and
\* leaves the store as it was.
C14_InsufficientEvidence ==
  [][\A p \in Procs :
       (/\ Finishes(p)
        /\ answered'[p].op = "resolveIdentity"
        /\ answered'[p].documentHash = None
        /\ answered'[p].faceEmbeddingId = None
        /\ answered'[p].deviceFingerprint = None)
       => (/\ res'[p].outcome = "thrown"
           /\ res'[p].error = "required"
           /\ res'[p].http = (IF answered'[p].route THEN 400 ELSE 0)
           /\ store' = store)]_vars

\* C14 witness: POST /start without a fingerprint was answered 400 while an
\* identity was stored
C14_Witness ==
  \E p \in Procs :
    /\ answered[p].op = "resolveIdentity"
    /\ answered[p].route
    /\ answered[p].documentHash = None
    /\ answered[p].faceEmbeddingId = None
    /\ answered[p].deviceFingerprint = None
    /\ res[p].outcome = "thrown"
    /\ res[p].http = 400
    /\ Len(store) > 0

\* ------------------------------------------------------------ the tier mapping
\* Every handler is about to call determineTrustLevel with a score of its own, from
\* just below 0 to just above 100, and then calls it.
TierScores == -1..101

TierRequest(riskScore) ==
  Request("determineTrustLevel", FALSE, None, None, None, None, None, "", NoParams, riskScore)

TierInit ==
  /\ store = <<>>
  /\ pc = [p \in Procs |-> "tier_call"]
  /\ req \in [Procs -> {TierRequest(x) : x \in TierScores}]
  /\ doc = [p \in Procs |-> NoDoc]
  /\ res = [p \in Procs |-> NoResponse]
  /\ answered = [p \in Procs |-> NoRequest]
  /\ ops = 0
  /\ societies = Societies

determineTrustLevel_call(p) ==
  /\ pc[p] = "tier_call"
  /\ UNCHANGED <<store, ops>>
  /\ Finish(p, req[p],
            [NoResponse EXCEPT !.outcome = "returned", !.riskScore = req[p].riskScore,
                               !.trustLevel = determineTrustLevel(req[p].riskScore)])

TierNext == \E p \in Procs : UNCHANGED societies /\ determineTrustLevel_call(p)

TierSpec == TierInit /\ [][TierNext]_vars

\* a is what determineTrustLevel returned for the score of r
TierReturned(r, a) == r.op = "determineTrustLevel" /\ a.outcome = "returned"

\* C15: every integer score in 0..100 gets one tier: 0-30 verified, 31-50 high,
\* 51-70 medium, 71-100 low; none gets unknown.
C15_TierMappingTotal ==
  \A p \in Procs :
    (TierReturned(answered[p], res[p]) /\ answered[p].riskScore \in 0..100)
      => /\ res[p].trustLevel # "unknown"
         /\ res[p].trustLevel = "verified" <=> answered[p].riskScore \in 0..30
         /\ res[p].trustLevel = "high" <=> answered[p].riskScore \in 31..50
         /\ res[p].trustLevel = "medium" <=> answered[p].riskScore \in 51..70
         /\ res[p].trustLevel = "low" <=> answered[p].riskScore \in 71..100

\* C15 witness: the scores on either side of the first boundary have been mapped
C15_Witness ==
  /\ TierReturned(answered[1], res[1])
  /\ TierReturned(answered[2], res[2])
  /\ answered[1].riskScore = 31
  /\ res[1].trustLevel = "high"
  /\ answered[2].riskScore = 100
  /\ res[2].trustLevel = "low"

\* How trusted a tier is: verified > high > medium > low
Rank(trustLevel) ==
  IF trustLevel = "verified" THEN 4
  ELSE IF trustLevel = "high" THEN 3
  ELSE IF trustLevel = "medium" THEN 2
  ELSE IF trustLevel = "low" THEN 1
  ELSE 0

\* C16: of two scores a < b in 0..100, the tier of a is at least as trusted as the
\* tier of b.
C16_TierMonotone ==
  \A p, q \in Procs :
    (/\ TierReturned(answered[p], res[p])
     /\ TierReturned(answered[q], res[q])
     /\ answered[p].riskScore \in 0..100
     /\ answered[q].riskScore \in 0..100
     /\ answered[p].riskScore < answered[q].riskScore)
      => Rank(res[p].trustLevel) >= Rank(res[q].trustLevel)

\* C16 witness: two scores next to each other fall into different tiers, the lower
\* score into the more trusted one
C16_Witness ==
  \E p, q \in Procs :
    /\ TierReturned(answered[p], res[p])
    /\ TierReturned(answered[q], res[q])
    /\ answered[p].riskScore = 50
    /\ answered[q].riskScore = 51
    /\ res[p].trustLevel = "high"
    /\ res[q].trustLevel = "medium"

\* The reference formula of the score for the signals x
RefV(x) ==
  Round((x.verificationConfidence.den - x.verificationConfidence.num) * 100,
        x.verificationConfidence.den)

RefI(x) ==
  IF x.identityReuseCount = 0 THEN 0
  ELSE IF x.identityReuseCount <= 2 THEN 10
  ELSE IF x.identityReuseCount <= 5 THEN 40
  ELSE IF x.identityReuseCount <= 10 THEN 70
  ELSE 95

RefD(x) ==
  IF x.deviceReuseCount = 0 THEN 0
  ELSE IF x.deviceReuseCount <= 3 THEN 5
  ELSE IF x.deviceReuseCount <= 7 THEN 35
  ELSE IF x.deviceReuseCount <= 15 THEN 65
  ELSE 90

RefN(x) ==
  IF x.incidentCount = 0 THEN 0
  ELSE IF x.incidentCount <= 2 THEN 20 * x.incidentCount
  ELSE IF x.incidentCount <= 5 THEN 40 + 15 * (x.incidentCount - 2)
  ELSE 95

RefScore(x) ==
  LET y == Round(40 * RefV(x) + 25 * RefI(x) + 20 * RefD(x) + 15 * RefN(x), 100)
  IN IF y < 0 THEN 0 ELSE IF y > 100 THEN 100 ELSE y

\* Confidence 0.9, identity reuse 2, device reuse 1, no incident
ExampleSignals == RiskParams(Conf(9, 10), 2, 1, 0)

\* Handler p is inside calculateAndUpdateRisk, the score computed
Scoring(p) == pc[p] \in {"risk_save1", "risk_save2"}

\* C17: the score calculateAndUpdateRisk sets on the identity is the reference
\* formula of its signals; for confidence 0.9, identity reuse 2, device reuse 1 and
\* no incident it is 8, with trust level verified.
C17_ScoreFormula ==
  \A p \in Procs :
    /\ Scoring(p) => doc[p].rec.riskScore = RefScore(req[p].riskParams)
    /\ (Scoring(p) /\ req[p].riskParams = ExampleSignals) => doc[p].rec.riskScore = 8
    /\ (pc[p] = "risk_save2" /\ req[p].riskParams = ExampleSignals)
         => doc[p].rec.trustLevel = "verified"

\* C17 witness: the example has been scored 8, verified
C17_Witness ==
  \E p \in Procs :
    /\ pc[p] = "risk_save2"
    /\ req[p].riskParams = ExampleSignals
    /\ doc[p].rec.riskScore = 8
    /\ doc[p].rec.trustLevel = "verified"

\* C17 (as claimed): the score is the reference formula of the signals, and for
\* confidence 0.9, identity reuse 2, device reuse 1 and no incident it is 7.
C17_AsClaimed ==
  \A p \in Procs :
    /\ Scoring(p) => doc[p].rec.riskScore = RefScore(req[p].riskParams)
    /\ (Scoring(p) /\ req[p].riskParams = ExampleSignals) => doc[p].rec.riskScore = 7

\* C18 (as claimed): the collection never holds an identity on which
\* calculateAndUpdateRisk has stored the new score and its 'risk_assessed' event
\* but not yet the trust level that belongs to them.
C18_ScoreAndTierTogether ==
  \A p \in Procs :
    (pc[p] = "risk_save2" /\ req[p].op = "calculateAndUpdateRisk")
      => store[doc[p].idx].trustLevel = doc[p].rec.trustLevel

\* The sequence a is the beginning of the sequence b
IsPrefix(a, b) == Len(a) <= Len(b) /\ \A k \in DOMAIN a : b[k] = a[k]

\* C19: in every step, of any handler in any interleaving, every stored identity
\* stays where it is and its history after the step begins with its history before
\* the step: events are only ever added at the end.
C19_HistoryAppendOnly ==
  [][/\ Len(store') >= Len(store)
     /\ \A i \in DOMAIN store :
          /\ store'[i].maid = store[i].maid
          /\ IsPrefix(store[i].verificationHistory, store'[i].verificationHistory)]_vars

\* C19 witness: a handler is about to save a document it read before another
\* handler's event was stored on the same identity
C19_Witness ==
  \E p \in Procs :
    /\ pc[p] \in {"resolve_save", "status_save", "risk_save1", "urs_save1"}
    /\ doc[p].idx \in DOMAIN store
    /\ doc[p].pushedHistory # <<>>
    /\ Len(store[doc[p].idx].verificationHistory)
         > Len(doc[p].rec.verificationHistory) - Len(doc[p].pushedHistory)

\* ------------------------------------------------------------ status updates
\* One handler at a time: an identity is created and its status is set, through the
\* service and through PUT /update-status/:maid, to each of the six statuses and
\* to a string that is none of them.
StatusInputs == validStatuses \cup {"bogus"}

StatusStep(p) ==
  \/ resolveIdentity_findOne(p, FALSE, 1, None, None, None)
  \/ resolveIdentity_save(p)
  \/ \E x \in BOOLEAN \X MAIDs \X StatusInputs :
       updateVerificationStatus_find(p, x[1], x[2], x[3])
  \/ updateVerificationStatus_save(p)

StatusNext ==
  \E p \in Procs :
    UNCHANGED societies /\ (\A q \in Procs \ {p} : pc[q] = "idle") /\ StatusStep(p)

StatusSpec == Init /\ [][StatusNext]_vars

\* The action of the event of a change to status s
StatusAction(s) ==
  IF s = "verified" THEN "verified" ELSE IF s = "flagged" THEN "flagged" ELSE "updated"

OverlapIdentity == CentralIdentity(1, 1, None, None, None)

OverlapParams == {RiskParams(Conf(0, ConfDen), 11, 0, 6), RiskParams(Conf(ConfDen, ConfDen), 0, 0, 0)}

OverlapInit ==
  /\ store = <<OverlapIdentity>>
  /\ pc = [p \in Procs |-> "idle"]
  /\ req = [p \in Procs |-> NoRequest]
  /\ doc = [p \in Procs |-> NoDoc]
  /\ res = [p \in Procs |-> NoResponse]
  /\ answered = [p \in Procs |-> NoRequest]
  /\ ops = 0
  /\ societies = Societies

OverlapStep(p) ==
  \/ \E a \in Agents : resolveIdentity_findOne(p, FALSE, 1, None, None, a)
  \/ resolveIdentity_save(p)
  \/ \E s \in {"verified", "flagged"} : updateVerificationStatus_find(p, FALSE, 1, s)
  \/ updateVerificationStatus_save(p)
  \/ \E x \in OverlapParams : calculateAndUpdateRisk_call(p, 1, x)
  \/ calculateAndUpdateRisk_save1(p)
  \/ calculateAndUpdateRisk_save2(p)

OverlapNext == \E p \in Procs : UNCHANGED societies /\ OverlapStep(p)

OverlapSpec == OverlapInit /\ [][OverlapNext]_vars

\* In this step the status of identity i changes to s from another status
ChangesTo(i, s) ==
  store'[i].verificationStatus = s /\ store[i].verificationStatus # s

\* C21 (as claimed): every step that changes the status of an identity to 'flagged'
\* from another status adds exactly 1 to its flagCount and appends exactly one
\* 'flagged' event, every step that changes it to 'verified' adds exactly 1 to its
\* totalVerifications, and no other step changes either counter.
C21_CountersFollowStatus ==
  [][\A i \in DOMAIN store :
       /\ store'[i].flagCount
            = store[i].flagCount + (IF ChangesTo(i, "flagged") THEN 1 ELSE 0)
       /\ store'[i].totalVerifications
            = store[i].totalVerifications + (IF ChangesTo(i, "verified") THEN 1 ELSE 0)
       /\ ChangesTo(i, "flagged")
            => /\ Len(store'[i].verificationHistory) = Len(store[i].verificationHistory) + 1
               /\ LastEntry(store'[i]).action = "flagged"]_vars

\* The stored identity rec after the mutating operation of request r has run on it
\* alone, from its read to its last save()
RunAlone(rec, r) ==
  LET d == Hydrate(1, rec)
      st == <<rec>>
  IN IF r.op = "updateVerificationStatus"
     THEN save(st, PushHistory(SetPath(d, "verificationStatus", r.status),
                               HistoryEntry(StatusAction(r.status),
                                            StrVal(rec.verificationStatus),
                                            StrVal(r.status))), 0)[1]
     ELSE IF r.op = "calculateAndUpdateRisk"
     THEN LET riskResult == calculateRiskScore(r.riskParams)
              d1 == methodUpdateRiskScore(d, riskResult.riskScore, 0)
              d2 == SetPath(saved(st, d1, 0), "trustLevel", riskResult.trustLevel)
          IN save(save(st, d1, 0), d2, 0)[1]
     ELSE IF r.op = "resolveIdentity" /\ ~alreadyLinked(populate(d), r.agentId)
     THEN save(st, PushHistory(PushAgent(d, r.agentId),
                               HistoryEntry("updated", Undef, AgentVal(r.agentId))), 0)[1]
     ELSE rec

\* Status, score, tier, linked agents, counters and history of rec
Observed(rec) ==
  <<rec.verificationStatus, rec.riskScore, rec.trustLevel, rec.linkedAgentIds,
    rec.totalVerifications, rec.flagCount, rec.verificationHistory>>

\* Both handlers have answered a mutating operation on the stored identity, the
\* only two requests so far: the two overlapped
TwoOverlapped ==
  /\ ops = 2
  /\ \A p \in Procs : pc[p] = "idle" /\ res[p].outcome = "returned"

\* C22 (as claimed): after two mutating operations on one identity that overlapped,
\* its status, score, tier, linked agents, counters and history are what running
\* the two one after the other, in one of the two orders, leaves.
C22_SerializedPerIdentity ==
  TwoOverlapped
    => \/ Observed(store[1])
            = Observed(RunAlone(RunAlone(OverlapIdentity, answered[1]), answered[2]))
       \/ Observed(store[1])
            = Observed(RunAlone(RunAlone(OverlapIdentity, answered[2]), answered[1]))

\* Handler p is at the save() of an identity it has just built, and the maid it
\* minted is the maid of a stored identity
Collides(p) ==
  /\ pc[p] = "resolve_save"
  /\ doc[p].idx = 0
  /\ \E i \in DOMAIN store : store[i].maid = doc[p].rec.maid

\* C23: after every step the stored identities have pairwise distinct maids, and
\* the save() of a new identity whose minted maid is already stored is rejected
\* with the duplicate-key error (409 from POST /start) and leaves the collection
\* as it was.
C23_UniqueIds ==
  [][/\ \A i, j \in DOMAIN store' : store'[i].maid = store'[j].maid => i = j
     /\ \A p \in Procs :
          (Collides(p) /\ pc'[p] # "resolve_save")
            => (/\ store' = store
                /\ res'[p].outcome = "thrown"
                /\ res'[p].error = "E11000"
                /\ res'[p].http = (IF answered'[p].route THEN 409 ELSE 0))]_vars

\* C23 witness: POST /start minted the maid of a stored identity and was answered
\* 409; the stored identity is as it was created
C23_Witness ==
  \E p \in Procs :
    /\ answered[p].op = "resolveIdentity"
    /\ res[p].error = "E11000"
    /\ res[p].http = 409
    /\ Len(store) = 1
    /\ Len(store[1].verificationHistory) = 1

\* C24 (as claimed): resolveIdentity surfaces the duplicate-key error only after a
\* second attempt; the first save() of a new identity that meets a duplicate key
\* never ends the call with that error.
C24_RetriesOnce ==
  [][\A p \in Procs :
       (Collides(p) /\ pc'[p] # "resolve_save")
         => ~(res'[p].outcome = "thrown" /\ res'[p].error = "E11000")]_vars

\* a is the answer 200 of PUT /update-risk/:maid to request r
Overridden(r, a) ==
  r.op = "calculateAndUpdateRisk" /\ r.route /\ a.outcome = "returned" /\ a.http = 200

\* C25 (as claimed): once PUT /update-risk/:maid with a score s in 0..100 has been
\* answered 200 for a newly created identity, the stored riskScore is s and the
\* last event of the identity is 'risk_assessed' with the old score 50 as
\* previousValue and s as newValue.
C25_OverrideStoresScore ==
  \A p \in Procs :
    Overridden(answered[p], res[p])
      => /\ answered[p].riskScore \in 0..100
         /\ Stored(store, answered[p].maid).riskScore = answered[p].riskScore
         /\ LastEntry(Stored(store, answered[p].maid))
              = HistoryEntry("risk_assessed", NumVal(50), NumVal(answered[p].riskScore))

\* ------------------------------------------------------------ GET /high-risk
\* req.query.threshold: <<>> if the query has none, <<t>> for the digits of t
NaN == [nan |-> TRUE, num |-> 0]

Num(n) == [nan |-> FALSE, num |-> n]

parseInt(q) == IF q = <<>> THEN NaN ELSE Num(q[1])

\* parseInt(req.query.threshold) || 70: NaN and 0 are falsy
highRiskThreshold(q) ==
  IF parseInt(q).nan \/ parseInt(q).num = 0 THEN 70 ELSE parseInt(q).num

\* The positions of st in an order in which find(...).sort({ riskScore: -1 }) may
\* give them: descending riskScore, equal scores in any order
sortedByRisk(st, order) ==
  \A a, b \in DOMAIN order : a < b => st[order[a]].riskScore >= st[order[b]].riskScore

\* CentralIdentity.findHighRisk(threshold): the orders the query may answer with
findHighRisk(st, threshold) ==
  LET matching == {i \in DOMAIN st : st[i].riskScore >= threshold}
  IN {order \in [1..Cardinality(matching) -> matching] :
        /\ \A a, b \in DOMAIN order : a # b => order[a] # order[b]
        /\ sortedByRisk(st, order)}

\* The entry of the answer for a stored identity
highRiskEntry(rec) ==
  [maid |-> rec.maid, riskScore |-> rec.riskScore, trustLevel |-> rec.trustLevel,
   verificationStatus |-> rec.verificationStatus,
   linkedAgentCount |-> Len(rec.linkedAgentIds), flagCount |-> rec.flagCount]

\* GET /high-risk: the threshold, its range check, the query and the answer
getHighRisk(p, q) ==
  LET threshold == highRiskThreshold(q)
      r == [Request("getHighRiskIdentities", TRUE, None, None, None, None, None, "",
                    NoParams, 0) EXCEPT !.status = IF q = <<>> THEN "" ELSE "threshold",
                                        !.riskScore = IF q = <<>> THEN 0 ELSE q[1]]
  IN /\ Arrive(p)
     /\ UNCHANGED store
     /\ IF threshold < 0 \/ threshold > 100
        THEN Finish(p, r, thrown(r, "Threshold must be between", 400))
        ELSE \E order \in findHighRisk(store, threshold) :
               Finish(p, r, [NoResponse EXCEPT
                               !.outcome = "returned", !.http = 200,
                               !.riskScore = threshold,
                               !.identities = [k \in DOMAIN order |->
                                                 highRiskEntry(store[order[k]])]])

\* Two identities are stored, as resolveIdentity created them; their scores are set
\* and the high-risk list is asked for, with and without a threshold.
ListThresholds == {<<>>, <<-1>>, <<0>>, <<1>>, <<50>>, <<51>>, <<70>>, <<71>>, <<100>>, <<101>>}

ListScores == {0, 49, 69, 70, 100}

ListInit ==
  /\ store = <<CentralIdentity(1, 1, None, None, None), CentralIdentity(2, None, 1, None, None)>>
  /\ pc = [p \in Procs |-> "idle"]
  /\ req = [p \in Procs |-> NoRequest]
  /\ doc = [p \in Procs |-> NoDoc]
  /\ res = [p \in Procs |-> NoResponse]
  /\ answered = [p \in Procs |-> NoRequest]
  /\ ops = 0
  /\ societies = Societies

ListStep(p) ==
  \/ \E m \in MAIDs, x \in ListScores : updateRiskScore_find(p, m, x)
  \/ updateRiskScore_save1(p)
  \/ updateRiskScore_save2(p)
  \/ \E q \in ListThresholds : getHighRisk(p, q)

ListNext == \E p \in Procs : UNCHANGED societies /\ ListStep(p)

ListSpec == ListInit /\ [][ListNext]_vars

\* a is the list GET /high-risk answered request r with
Listed(r, a) == r.op = "getHighRiskIdentities" /\ a.outcome = "returned"

\* The threshold of request r as the caller means it: t if supplied, 70 if not
MeantThreshold(r) == IF r.status = "threshold" THEN r.riskScore ELSE 70

\* The list a holds exactly the identities of st with riskScore >= t, each once, in
\* descending order of riskScore
ListsFrom(a, st, t) ==
  /\ {e.maid : e \in Range(a.identities)} = {st[i].maid : i \in {j \in DOMAIN st : st[j].riskScore >= t}}
  /\ \A k \in DOMAIN a.identities :
       /\ a.identities[k].riskScore = Stored(st, a.identities[k].maid).riskScore
       /\ \A m \in DOMAIN a.identities :
            (k < m => a.identities[k].riskScore >= a.identities[m].riskScore)
            /\ (a.identities[k].maid = a.identities[m].maid => k = m)

\* C26 (as claimed): GET /high-risk with a threshold t in 0..100, 0 included, is
\* answered with exactly the stored identities whose riskScore is at least t, in
\* descending order of riskScore, and without a threshold with those of at least 70.
C26_ListHighRisk ==
  [][\A p \in Procs :
       (/\ Finishes(p)
        /\ answered'[p].op = "getHighRiskIdentities"
        /\ MeantThreshold(answered'[p]) \in 0..100)
       => (/\ Listed(answered'[p], res'[p])
           /\ ListsFrom(res'[p], store, MeantThreshold(answered'[p])))]_vars

\* C27 (as claimed): no agent occurs more than once in the linkedAgentIds of a
\* stored identity, whatever Resolve calls have run or are running.
C27_LinkedAgentsIsSet ==
  \A i \in DOMAIN store :
    \A k, m \in DOMAIN store[i].linkedAgentIds :
      store[i].linkedAgentIds[k] = store[i].linkedAgentIds[m] => k = m

\* C28 (as claimed): after any sequence of Resolve calls no agent is among the
\* linkedAgentIds of two stored identities.
C28_AgentInOneIdentity ==
  \A i, j \in DOMAIN store :
    Range(store[i].linkedAgentIds) \cap Range(store[j].linkedAgentIds) # {} => i = j

\* C29 (as claimed): determineTrustLevel called with a score outside 0..100 ends
\* with an error and gives no trust level for it.
C29_RejectsOutOfRange ==
  \A p \in Procs :
    (answered[p].op = "determineTrustLevel" /\ answered[p].riskScore \notin 0..100)
      => (res[p].outcome = "thrown" /\ res[p].trustLevel \notin trustLevels)

\* ------------------------------------------------------------ a store that fails
\* One risk operation on a freshly created identity while the connection to the
\* store may break: each save() of calculateAndUpdateRisk either goes through or
\* is rejected with the driver's error.
calculateAndUpdateRisk_save1_rejected(p) ==
  /\ pc[p] = "risk_save1"
  /\ UNCHANGED <<store, ops>>
  /\ Finish(p, req[p], thrown(req[p], "MongoNetworkError",
                              riskCatch(req[p], "MongoNetworkError")))

calculateAndUpdateRisk_save2_rejected(p) ==
  /\ pc[p] = "risk_save2"
  /\ UNCHANGED <<store, ops>>
  /\ Finish(p, req[p], thrown(req[p], "MongoNetworkError",
                              riskCatch(req[p], "MongoNetworkError")))

OutageParams ==
  {RiskParams(c, i, 0, n) : c \in ScoreConfidences, i \in {0, 11}, n \in {0, 6}}

OutageStep(p) ==
  \/ \E x \in OutageParams : calculateAndUpdateRisk_call(p, store[1].maid, x)
  \/ \E x \in ScoreInputs : updateRisk_route(p, store[1].maid, x)
  \/ calculateAndUpdateRisk_save1(p)
  \/ calculateAndUpdateRisk_save1_rejected(p)
  \/ calculateAndUpdateRisk_save2(p)
  \/ calculateAndUpdateRisk_save2_rejected(p)

OutageNext == \E p \in Procs : UNCHANGED societies /\ OutageStep(p)

OutageSpec == ScoreInit /\ [][OutageNext]_vars

\* C30 (as claimed): when calculateAndUpdateRisk, the only operation on a newly
\* created identity, has ended with an error, a rejected save() included, the error
\* has reached the caller and the identity's riskScore, trustLevel,
\* lastRiskAssessment and history are as they were created.
C30_RiskAllOrNothing ==
  \A p \in Procs :
    (answered[p].op = "calculateAndUpdateRisk" /\ res[p].outcome = "thrown")
      => /\ res[p].error # ""
         /\ answered[p].route => res[p].http >= 400
         /\ store[1].riskScore = 50
         /\ store[1].trustLevel = "unknown"
         /\ store[1].lastRiskAssessment = 0
         /\ Len(store[1].verificationHistory) = 1

\* ------------------------------------------------------------ rejected updates
\* An identity is created, and status updates and risk overrides arrive for it and
\* for an identifier that is not stored, with valid and invalid values, through
\* the service and through the routes.
RejectStep(p) ==
  \/ resolveIdentity_findOne(p, FALSE, 1, None, None, None)
  \/ resolveIdentity_save(p)
  \/ \E x \in BOOLEAN \X MAIDs \X {"verified", "bogus"} :
       updateVerificationStatus_find(p, x[1], x[2], x[3])
  \/ updateVerificationStatus_save(p)
  \/ \E x \in MAIDs \X {-1, 50, 101} : updateRisk_route(p, x[1], x[2])
  \/ calculateAndUpdateRisk_save1(p)
  \/ calculateAndUpdateRisk_save2(p)

RejectNext == \E p \in Procs : UNCHANGED societies /\ RejectStep(p)

RejectSpec == Init /\ [][RejectNext]_vars

\* a is the refusal of the status update or risk override r: unknown maid, invalid
\* status or score out of range
Rejected(r, a) ==
  /\ r.op \in {"updateVerificationStatus", "calculateAndUpdateRisk"}
  /\ a.outcome = "thrown"
  /\ a.error \in {"not found", "Invalid status", "ValidationError", "must be between"}

updateCentralVerificationPolicy_toggles(soc, societyId, enabled) ==
  IF societyId \in DOMAIN soc
  THEN [soc EXCEPT ![societyId].requireCentralVerification = ~@]
  ELSE soc

\* Society.statics.updateCentralVerificationPolicy: findOneAndUpdate of the flag by
\* societyId; the collection afterwards
updateCentralVerificationPolicy(soc, societyId, enabled) ==
  IF societyId \in DOMAIN soc
  THEN [soc EXCEPT ![societyId].requireCentralVerification = enabled]
  ELSE soc

PolicyRequest(op, societyId, enabled) ==
  [Request(op, TRUE, None, None, None, None, None, "", NoParams, 0)
     EXCEPT !.societyId = societyId, !.enabled = enabled]

\* PUT /central-verification/:societyId, once protect and requireAdmin let it through
putCentralVerification(p, societyId, enabled) ==
  LET r == PolicyRequest("putCentralVerification", societyId, enabled)
      updated == updateCentralVerificationPolicy(societies, societyId, enabled.value)
  IN /\ Arrive(p)
     /\ UNCHANGED store
     /\ IF enabled.type # "boolean"
        THEN /\ UNCHANGED societies
             /\ Finish(p, r, thrown(r, "enabled must be a boolean", 400))
        ELSE /\ societies' = updated
             /\ IF societyId \notin DOMAIN societies
                THEN Finish(p, r, thrown(r, "Society not found", 404))
                ELSE Finish(p, r, [NoResponse EXCEPT
                                     !.outcome = "returned", !.http = 200,
                                     !.requireCentralVerification =
                                        updated[societyId].requireCentralVerification])

\* GET /central-verification/:societyId
getCentralVerification(p, societyId) ==
  LET r == PolicyRequest("getCentralVerification", societyId, NoBody)
  IN /\ Arrive(p)
     /\ UNCHANGED <<store, societies>>
     /\ IF societyId \notin DOMAIN societies
        THEN Finish(p, r, thrown(r, "Society not found", 404))
        ELSE Finish(p, r, [NoResponse EXCEPT
                             !.outcome = "returned", !.http = 200,
                             !.requireCentralVerification =
                                societies[societyId].requireCentralVerification \/ FALSE])

\* The ids a policy request names: a registered society and an unknown one
SocietyIds == {1, 2}

\* Bodies of a policy update: the two booleans, the string "true", and no field
Bodies == {Body("boolean", TRUE), Body("boolean", FALSE), Body("string", TRUE), NoBody}

\* Policy requests among identity requests: an identity is resolved, its status set
\* and the gate asked, while the admin reads and writes the policy.
PolicyStep(p) ==
  \/ \E s \in SocietyIds, b \in Bodies : putCentralVerification(p, s, b)
  \/ \E s \in SocietyIds : getCentralVerification(p, s)
  \/ UNCHANGED societies /\ resolveIdentity_findOne(p, FALSE, 1, None, None, 1)
  \/ UNCHANGED societies /\ resolveIdentity_save(p)
  \/ UNCHANGED societies /\ updateVerificationStatus_find(p, FALSE, 1, "verified")
  \/ UNCHANGED societies /\ updateVerificationStatus_save(p)

PolicyNext == \E p \in Procs : PolicyStep(p)

PolicySpec == Init /\ [][PolicyNext]_vars

\* p has just answered 200 to a policy update for society s
PolicyWritten(p, s) ==
  /\ Finishes(p)
  /\ answered'[p].op = "putCentralVerification"
  /\ answered'[p].societyId = s
  /\ res'[p].http = 200

\* C32: every society's flag starts off; a step changes it only by answering 200 to
\* a policy update for that society, and then the flag and the answer are the
\* boolean that was sent; a GET answers the stored flag; an update whose 'enabled'
\* is not a boolean is answered 400 and changes no flag.
C32_FlagIsLastUpdate ==
  /\ \A s \in DOMAIN societies : ~societies[s].requireCentralVerification
  /\ [][\A p \in Procs :
          /\ \A s \in DOMAIN societies :
               IF PolicyWritten(p, s)
               THEN /\ answered'[p].enabled.type = "boolean"
                    /\ societies'[s].requireCentralVerification = answered'[p].enabled.value
                    /\ res'[p].requireCentralVerification = answered'[p].enabled.value
               ELSE (\A q \in Procs : ~PolicyWritten(q, s)) => societies'[s] = societies[s]
          /\ (Finishes(p) /\ answered'[p].op = "getCentralVerification"
                /\ answered'[p].societyId \in DOMAIN societies)
               => /\ res'[p].http = 200
                  /\ res'[p].requireCentralVerification =
                       societies'[answered'[p].societyId].requireCentralVerification
          /\ (Finishes(p) /\ answered'[p].op = "putCentralVerification"
                /\ answered'[p].enabled.type # "boolean")
               => res'[p].http = 400 /\ societies' = societies
          /\ DOMAIN societies' = DOMAIN societies]_vars

\* C32 witness: the flag was switched on and a later GET, answered after an identity
\* was resolved, reads it on
C32_Witness ==
  /\ societies[1].requireCentralVerification
  /\ store # <<>>
  /\ \E p \in Procs :
       /\ answered[p].op = "getCentralVerification"
       /\ answered[p].societyId = 1
       /\ res[p].http = 200
       /\ res[p].requireCentralVerification

\* ------------------------------------------------------------ centralVerification.middleware
\* requireVerifiedIdentity ends the request with an error response
verifiedDenied(http, error, currentStatus) ==
  [NoResponse EXCEPT !.outcome = "denied", !.http = http, !.error = error,
                     !.verificationStatus = currentStatus]

\* A catch block that logs and calls next()
requireVerifiedIdentity_catch_failOpen(error) == gateNext

\* The catch block of requireVerifiedIdentity: 500
requireVerifiedIdentity_catch(error) == verifiedDenied(500, "Verification check failed", "")

\* What requireVerifiedIdentity does with the identity it looked up
verifiedDecision(st, maid) ==
  LET i == findByMAID(st, maid)
  IN IF i = 0
     THEN verifiedDenied(404, "Identity not found", "")
     ELSE IF st[i].verificationStatus # "verified"
     THEN verifiedDenied(403, "Identity not verified", st[i].verificationStatus)
     ELSE gateNext

\* requireVerifiedIdentity is entered: without a MAID it answers 400
requireVerifiedIdentity(p, maid) ==
  LET r == Request("requireVerifiedIdentity", TRUE, None, None, None, None, maid, "",
                   NoParams, 0)
  IN /\ Arrive(p)
     /\ UNCHANGED <<store, societies>>
     /\ IF maid = None
        THEN Finish(p, r, verifiedDenied(400, "MAID is required", ""))
        ELSE Await(p, "verified_findByMAID", r, NoDoc)

\* await CentralIdentity.findByMAID(maid), which may throw, and the checks on its
\* result
requireVerifiedIdentity_findByMAID(p, throws) ==
  /\ pc[p] = "verified_findByMAID"
  /\ UNCHANGED <<store, ops, societies>>
  /\ IF throws
     THEN Finish(p, [req[p] EXCEPT !.lookupError = "findByMAID"],
                 requireVerifiedIdentity_catch("findByMAID"))
     ELSE Finish(p, req[p], verifiedDecision(store, req[p].maid))

\* Requests behind requireVerifiedIdentity next to the operations that create an
\* identity and set its status
VerifiedStep(p) ==
  \/ UNCHANGED societies /\ resolveIdentity_findOne(p, FALSE, 1, None, None, None)
  \/ UNCHANGED societies /\ resolveIdentity_save(p)
  \/ \E s \in validStatuses :
       UNCHANGED societies /\ updateVerificationStatus_find(p, FALSE, 1, s)
  \/ UNCHANGED societies /\ updateVerificationStatus_save(p)
  \/ \E m \in {None} \cup MAIDs : requireVerifiedIdentity(p, m)
  \/ \E t \in BOOLEAN : requireVerifiedIdentity_findByMAID(p, t)

VerifiedNext == \E p \in Procs : VerifiedStep(p)

VerifiedSpec == Init /\ [][VerifiedNext]_vars

\* C33: the step in which requireVerifiedIdentity ends calls next() exactly when the
\* lookup did not throw and the identity with the supplied MAID is stored with
\* status 'verified'; otherwise it answers 400 without a MAID, 500 when the lookup
\* threw, 404 when no identity has the MAID and 403 for any other status.
C33_VerifiedGateFailsClosed ==
  [][\A p \in Procs :
       (Finishes(p) /\ answered'[p].op = "requireVerifiedIdentity")
         => LET r == answered'[p]
                i == findByMAID(store, r.maid)
            IN /\ res'[p].outcome = "next"
                    <=> /\ r.maid # None
                        /\ r.lookupError = ""
                        /\ i # 0
                        /\ store[i].verificationStatus = "verified"
               /\ res'[p].outcome # "next"
                    => /\ res'[p].outcome = "denied"
                       /\ res'[p].http =
                            (IF r.maid = None THEN 400
                             ELSE IF r.lookupError # "" THEN 500
                             ELSE IF i = 0 THEN 404 ELSE 403)]_vars

\* C33 witness: a request carrying the MAID of a stored identity that an update has
\* verified was let through
C33_Witness ==
  \E p \in Procs :
    /\ answered[p].op = "requireVerifiedIdentity"
    /\ res[p].outcome = "next"
    /\ Stored(store, answered[p].maid).verificationStatus = "verified"

\* C34: an identity is stored with status 'pending', and the stored status of an
\* identity changes only in the step in which an updateVerificationStatus for its
\* maid saves, to the status that was asked for: the saves of Resolve, of the risk
\* computation and of the override, and every read, leave it as it was.
C34_StatusOnlyByUpdate ==
  [][\A i \in DOMAIN store' :
       IF i \notin DOMAIN store
       THEN store'[i].verificationStatus = "pending"
       ELSE store'[i].verificationStatus # store[i].verificationStatus
              => \E p \in Procs :
                   /\ pc[p] = "status_save"
                   /\ Finishes(p)
                   /\ answered'[p].op = "updateVerificationStatus"
                   /\ answered'[p].maid = store[i].maid
                   /\ store'[i].verificationStatus = answered'[p].status]_vars

\* C34 witness: a risk computation that read the identity while it was pending has
\* saved its score after a status update verified the identity
C34_Witness ==
  \E p, q \in Procs, i \in DOMAIN store :
    /\ answered[p].op = "updateVerificationStatus"
    /\ res[p].outcome = "returned"
    /\ answered[q].op = "calculateAndUpdateRisk"
    /\ res[q].outcome = "returned"
    /\ res[q].verificationStatus = "pending"
    /\ store[i].verificationStatus = "verified"
    /\ store[i].riskScore # 50

\* Confidence a is at most confidence b
ConfLeq(a, b) == a.num * b.den <= b.num * a.den

\* y is x with no count lowered and the confidence not raised
NoLessSuspect(x, y) ==
  /\ ConfLeq(y.verificationConfidence, x.verificationConfidence)
  /\ y.identityReuseCount >= x.identityReuseCount
  /\ y.deviceReuseCount >= x.deviceReuseCount
  /\ y.incidentCount >= x.incidentCount

\* C35: the score a risk computation has stored for its signals is at most the
\* score of any signals that differ from them only by higher counts or a lower
\* confidence in [0, 1], and at least the score of any that differ only the other
\* way; the four sub-scores of the computation lie in 0..100.
C35_ScoreMonotone ==
  \A p \in Procs :
    (answered[p].op = "calculateAndUpdateRisk" /\ ~answered[p].route
       /\ res[p].outcome = "returned")
      => LET x == answered[p].riskParams
             c == calculateRiskScore(x)
         IN /\ Stored(store, answered[p].maid).riskScore = res[p].riskScore
            /\ \A y \in ScoreParams :
                 /\ NoLessSuspect(x, y) => calculateRiskScore(y).riskScore >= res[p].riskScore
                 /\ NoLessSuspect(y, x) => calculateRiskScore(y).riskScore <= res[p].riskScore
            /\ {c.verificationRisk, c.identityRisk, c.deviceRisk, c.incidentRisk} \subseteq 0..100

\* C35 witness: a computation with three incidents and an imperfect confidence has
\* returned, so that there are signals on both sides of it
C35_Witness ==
  \E p \in Procs :
    /\ answered[p].op = "calculateAndUpdateRisk"
    /\ ~answered[p].route
    /\ res[p].outcome = "returned"
    /\ answered[p].riskParams.incidentCount = 3
    /\ answered[p].riskParams.identityReuseCount = 3
    /\ answered[p].riskParams.verificationConfidence = Conf(4, ConfDen)
    /\ res[p].riskScore > 0

\* C36: the collection never loses a record and a stored record keeps its place and
\* its maid; a record is added only in the save step of a resolveIdentity whose
\* lookup found nothing, one record at a time; and such a lookup finds nothing only
\* when no stored identity matches the supplied fingerprints.
C36_CreatedOnceNeverDeleted ==
  [][/\ Len(store') >= Len(store)
     /\ \A i \in DOMAIN store : store'[i].maid = store[i].maid
     /\ Len(store') > Len(store)
          => /\ Len(store') = Len(store) + 1
             /\ \E p \in Procs :
                  /\ pc[p] = "resolve_save"
                  /\ pc'[p] # "resolve_save"
                  /\ req[p].op = "resolveIdentity"
                  /\ doc[p].idx = 0
                  /\ store'[Len(store')].maid = doc[p].rec.maid
     /\ \A p \in Procs :
          (pc[p] = "idle" /\ pc'[p] = "resolve_save" /\ doc'[p].idx = 0)
            => \A k \in DOMAIN store : ~searchConditions(req'[p], store[k])]_vars

\* C36 witness: two identities were created and the first of them has since been
\* given a status and still stands where it was created
C36_Witness ==
  /\ Len(store) = 2
  /\ store[1].maid # store[2].maid
  /\ store[1].verificationStatus # "pending"

\* The events of history h that record a status change (kind "status": previous and
\* new value are statuses) or a risk assessment (kind "risk"), in order
EventsOf(h, kind) ==
  SelectSeq(h, LAMBDA e : IF kind = "risk" THEN e.action = "risk_assessed"
                          ELSE e.action \in {"verified", "flagged", "updated"}
                                 /\ e.newValue.t = "string")

\* The events es replay to the value current from the value initial
Replays(es, initial, current) ==
  /\ current = (IF es = <<>> THEN initial ELSE es[Len(es)].newValue)
  /\ \A k \in 2..Len(es) : es[k].previousValue = es[k - 1].newValue

\* C37 (as claimed): for every stored identity the status events replay to its
\* verificationStatus from 'pending' and the 'risk_assessed' events to its riskScore
\* from 50: the last event holds the current value and every event's previous
\* value is the new value of the event before it, in any interleaving.
C37_HistoryReplays ==
  \A i \in DOMAIN store :
    /\ Replays(EventsOf(store[i].verificationHistory, "status"), StrVal("pending"),
               StrVal(store[i].verificationStatus))
    /\ Replays(EventsOf(store[i].verificationHistory, "risk"), NumVal(50),
               NumVal(store[i].riskScore))

\* The three evidence fingerprints of a stored identity
FingerprintsOf(rec) == <<rec.documentHash, rec.faceEmbeddingId, rec.deviceFingerprint>>

\* None of the fingerprints r supplies is recorded, in its field, on an identity of st
Unrecorded(r, st) == \A k \in DOMAIN st : ~searchConditions(r, st[k])

\* C38: no step changes the documentHash, faceEmbeddingId or deviceFingerprint of a
\* stored identity, whatever a Resolve that hits it supplies; and a Resolve that
\* returns after supplying only fingerprints no identity records is a miss: it
\* reports a new identity and the collection has one record more.
C38_FingerprintsFixed ==
  [][/\ \A i \in DOMAIN store : FingerprintsOf(store'[i]) = FingerprintsOf(store[i])
     /\ \A p \in Procs :
          (Finishes(p) /\ answered'[p].op = "resolveIdentity" /\ ~answered'[p].route
             /\ res'[p].outcome = "returned" /\ Unrecorded(answered'[p], store))
            => /\ res'[p].isNewIdentity
               /\ Len(store') = Len(store) + 1
               /\ store'[Len(store')].maid = res'[p].maid]_vars

\* C38 witness: a Resolve with a document hash and a device fingerprint has hit the
\* identity that records the hash and no device fingerprint, and the identity still
\* has none
C38_Witness ==
  \E p \in Procs :
    /\ answered[p].op = "resolveIdentity"
    /\ answered[p].documentHash = 1
    /\ answered[p].deviceFingerprint = 1
    /\ res[p].outcome = "returned"
    /\ ~res[p].isNewIdentity
    /\ Stored(store, res[p].maid).documentHash = 1
    /\ Stored(store, res[p].maid).deviceFingerprint = None

\* C39: when Resolve calls do not overlap, no two stored identities hold the same
\* non-empty documentHash, the same non-empty faceEmbeddingId or the same non-empty
\* deviceFingerprint.
C39_FingerprintsUnique ==
  \A i, j \in DOMAIN store :
    i # j => \A f \in {"documentHash", "faceEmbeddingId", "deviceFingerprint"} :
               store[i][f] # None => store[i][f] # store[j][f]

\* C39 witness: two identities are stored, the second created by a Resolve that
\* supplied a fingerprint in a field where the first has none
C39_Witness ==
  /\ Len(store) = 2
  /\ store[1].documentHash # None
  /\ store[2].documentHash = None
  /\ store[2].deviceFingerprint # None
  /\ store[1].deviceFingerprint = None
====
